---- MODULE Spec2Model ----
(***************************************************************************)
(* A model of resumably's email pipeline (backend/app/routes/emails.py),   *)
(* its reasoning-engine adapters (backend/app/services/claude_service.py)  *)
(* and the tables they write (backend/app/models.py).                      *)
(*                                                                         *)
(* Requests run as processes of Procs.  Every call to the mailbox, the     *)
(* reasoning engine or the database is a step of its own, so that the      *)
(* steps of two requests interleave the way two requests served by the     *)
(* application interleave.                                                 *)
(***************************************************************************)
EXTENDS Integers, Sequences, FiniteSets, TLC

\* ------------------------------------------------------------------ bounds
MaxInvocations == 2      \* requests started in one behaviour
MaxBatchLen == 2         \* ids in one batch-classify request
MaxMentions == 2         \* skills in one extraction response
MaxLedgerMentions == 3   \* mentions recorded in one behaviour
MaxTextLen == 3          \* tokens of a reasoning-engine response text
MaxResumes == 2          \* resumes created in one behaviour
MaxSkills == 3           \* skills created in one behaviour
MaxImport == 2           \* skills in one bulk-import request
MaxAuthRequests == 5     \* requests of routes/auth.py in one behaviour
MaxTokens == 2           \* password reset tokens generated in one behaviour
MaxClock == 2            \* hours that pass in one behaviour

Procs == {"p1", "p2"}
Users == {1, 2}
GmailIds == {"m1", "m2"}

\* ------------------------------------------------------------- text, JSON
(* A response text is a sequence of tokens: the two code-fence markers,    *)
(* whitespace, prose (text that is no JSON and holds no fence marker), and *)
(* JSON values.  A JSON value keeps what JobDetails(result) and the      *)
(* skill loop read: its kind, the JSON type of the keys is_recruiter_email *)
(* (flag), confidence (conf, with the number n in hundredths),             *)
(* key_technologies (techs) and reason, the keys among OptionalKeys that   *)
(* hold a value and not null (opt), and the items of an array.             *)
NoVal ==
  [kind |-> "none", flag |-> "absent", conf |-> "absent", n |-> 0,
   techs |-> "absent", reason |-> "absent", opt |-> {}, items |-> <<>>]

JsonObject(flag, conf, n, techs, reason) ==
  [kind |-> "object", flag |-> flag, conf |-> conf, n |-> n,
   techs |-> techs, reason |-> reason, opt |-> {}, items |-> <<>>]

\* the other keys the prompt of classify_email asks for
OptionalKeys ==
  {"job_title", "company", "key_requirements", "job_type", "seniority_level",
   "salary_range", "recruiter_name"}

\* the object with a value under each of the keys given
JsonObjectWith(v, keys) == [v EXCEPT !.opt = keys]

JsonArray(items) == [NoVal EXCEPT !.kind = "array", !.items = items]

JsonScalar(kind) == [NoVal EXCEPT !.kind = kind]

Tok(t) == [tok |-> t, val |-> NoVal]

JsonTok(v) == [tok |-> "json", val |-> v]

FenceJson == Tok("fence_json")   \* ```json
Fence == Tok("fence")            \* ```
Ws == Tok("ws")
Prose == Tok("prose")

IsFence(t) == t.tok \in {"fence_json", "fence"}

\* "marker" in text
Contains(text, marker) == \E i \in DOMAIN text : text[i].tok = marker

\* index of the first token of one of the kinds at or after from, Len+1 if
\* there is none
FirstFrom(text, from, kinds) ==
  IF \E i \in from..Len(text) : text[i].tok \in kinds
    THEN CHOOSE i \in from..Len(text) :
           /\ text[i].tok \in kinds
           /\ \A j \in from..(i - 1) : text[j].tok \notin kinds
    ELSE Len(text) + 1

\* text.split(marker)[1].split("```")[0]: what follows the first marker, up to
\* the next fence marker of either kind
SplitFence(text, marker) ==
  LET i == FirstFrom(text, 1, {marker})
      j == FirstFrom(text, i + 1, {"fence_json", "fence"})
  IN SubSeq(text, i + 1, j - 1)

StripFence(text) ==
  IF Contains(text, "fence_json") THEN SplitFence(text, "fence_json")
  ELSE IF Contains(text, "fence") THEN SplitFence(text, "fence")
  ELSE text

RECURSIVE LStrip(_)
LStrip(s) == IF s # <<>> /\ Head(s).tok = "ws" THEN LStrip(Tail(s)) ELSE s

RECURSIVE RStrip(_)
RStrip(s) ==
  IF s # <<>> /\ s[Len(s)].tok = "ws" THEN RStrip(SubSeq(s, 1, Len(s) - 1)) ELSE s

\* str.strip()
Strip(s) == RStrip(LStrip(s))

\* json.loads: one JSON value, optionally inside whitespace; anything else
\* (nothing, prose, a second value) is a JSONDecodeError
json_loads(s) ==
  LET t == Strip(s)
  IN IF Len(t) = 1 /\ t[1].tok = "json"
       THEN [ok |-> TRUE, val |-> t[1].val]
       ELSE [ok |-> FALSE, val |-> NoVal]

\* ------------------------------------------------------------- JobDetails
NoJobDetails ==
  [is_recruiter_email |-> FALSE, confidence |-> 0, job_title |-> "None",
   company |-> "None", key_requirements |-> <<>>, key_technologies |-> <<>>,
   job_type |-> "None", seniority_level |-> "None", salary_range |-> "None",
   recruiter_name |-> "None", reason |-> "none"]

\* an Optional[str] field of JobDetails: the value of the key, or None
OptionalStr(result, key, value) ==
  IF key \in result.opt THEN value ELSE "None"

\* JobDetails(result), schemas.py: is_recruiter_email and confidence are
\* required, key_technologies is a list (default []), reason a str (default "")
JobDetailsError(result) ==
  IF result.kind # "object" THEN "TypeError"
  ELSE IF result.flag \notin {"true", "false"} THEN "ValidationError"
  ELSE IF result.conf # "number" THEN "ValidationError"
  ELSE IF result.techs = "null" THEN "ValidationError"
  ELSE "none"

JobDetails(result) ==
  [is_recruiter_email |-> (result.flag = "true"),
   confidence |-> result.n,
   job_title |-> OptionalStr(result, "job_title", "engineer"),
   company |-> OptionalStr(result, "company", "acme"),
   key_requirements |-> IF "key_requirements" \in result.opt
                          THEN <<"degree">> ELSE <<>>,
   key_technologies |-> IF result.techs = "list" THEN <<"python">> ELSE <<>>,
   job_type |-> OptionalStr(result, "job_type", "remote"),
   seniority_level |-> OptionalStr(result, "seniority_level", "senior"),
   salary_range |-> OptionalStr(result, "salary_range", "100k"),
   recruiter_name |-> OptionalStr(result, "recruiter_name", "Sam"),
   reason |-> IF result.reason = "string" THEN "brief explanation" ELSE ""]

\* the JobDetails of the except branch of classify_email
FailedToParse ==
  [NoJobDetails EXCEPT !.reason = "Failed to parse response"]

Returned(v) == [raised |-> FALSE, exc |-> "none", value |-> v]

Raised(e) == [raised |-> TRUE, exc |-> e, value |-> NoJobDetails]

\* ------------------------------------------------- reasoning-engine replies
(* A reply of client.messages.create: the call raises (api = "error"), or  *)
(* returns a message with no content block, or with a text.                *)
ApiError == [api |-> "error", content |-> "empty", text |-> <<>>]
EmptyContent == [api |-> "ok", content |-> "empty", text |-> <<>>]
TextReply(text) == [api |-> "ok", content |-> "text", text |-> text]

\* an except clause that misses the JSON error
ClassifyCaughtIndexOnly == {"IndexError"}

\* the exceptions the except clause of classify_email names
ClassifyCaught == {"JSONDecodeError", "IndexError"}

\* the try block of classify_email: the exception it ends with, "none" if it
\* returns
ClassifyTry(resp) ==
  IF resp.content = "empty" THEN "IndexError"
  ELSE LET parsed == json_loads(StripFence(resp.text))
       IN IF ~parsed.ok THEN "JSONDecodeError" ELSE JobDetailsError(parsed.val)

classify_email(resp) ==
  IF resp.api = "error" THEN Raised("APIError")
  ELSE LET exc == ClassifyTry(resp)
       IN IF exc = "none"
            THEN Returned(JobDetails(json_loads(StripFence(resp.text)).val))
          ELSE IF exc \in ClassifyCaught THEN Returned(FailedToParse)
          ELSE Raised(exc)

\* the exceptions the except clause of extract_skills_from_email names
ExtractCaught == {"JSONDecodeError", "IndexError"}

ExtractTry(resp) ==
  IF resp.content = "empty" THEN "IndexError"
  ELSE IF ~json_loads(StripFence(resp.text)).ok THEN "JSONDecodeError"
  ELSE "none"

\* extract_skills_from_email: whatever JSON value the text holds, [] when the
\* text does not parse
extract_skills_from_email(resp) ==
  IF resp.api = "error" THEN [raised |-> TRUE, exc |-> "APIError", value |-> NoVal]
  ELSE IF ExtractTry(resp) = "none"
    THEN [raised |-> FALSE, exc |-> "none",
          value |-> json_loads(StripFence(resp.text)).val]
  ELSE IF ExtractTry(resp) \in ExtractCaught
    THEN [raised |-> FALSE, exc |-> "none", value |-> JsonArray(<<>>)]
  ELSE [raised |-> TRUE, exc |-> ExtractTry(resp), value |-> NoVal]

\* -------------------------------------------------------- resume documents
(* A resume document is a JSON value: its kind, the set of its top-level   *)
(* keys when it is an object, and a tag standing for what the keys hold.   *)
DocValue(kind, keys, content) ==
  [kind |-> kind, keys |-> keys, content |-> content]

NoDoc == DocValue("none", {}, "none")

\* the keys of base_resume in create_draft
ResumeKeys ==
  {"personal", "summary", "skills", "experience", "education", "projects",
   "certifications"}

\* base_resume = {'personal': resume.personal_info, ...}
BaseResume(content) == DocValue("object", ResumeKeys, content)

\* an except clause that misses the JSON error
TailorCaughtIndexOnly == {"IndexError"}

\* the exceptions the except clause of tailor_resume names
TailorCaught == {"JSONDecodeError", "IndexError"}

\* the try block of tailor_resume: the exception it ends with, "none" if it
\* returns
TailorTry(resp) ==
  IF resp.content = "empty" THEN "IndexError"
  ELSE IF ~json_loads(StripFence(resp.text)).ok THEN "JSONDecodeError"
  ELSE "none"

\* tailor_resume: whatever JSON value the text holds, base_resume when the
\* text does not parse
tailor_resume(base_resume, resp) ==
  IF resp.api = "error" THEN [raised |-> TRUE, exc |-> "APIError", value |-> NoDoc]
  ELSE IF TailorTry(resp) = "none"
    THEN [raised |-> FALSE, exc |-> "none",
          value |-> json_loads(StripFence(resp.text)).val]
  ELSE IF TailorTry(resp) \in TailorCaught
    THEN [raised |-> FALSE, exc |-> "none", value |-> base_resume]
  ELSE [raised |-> TRUE, exc |-> TailorTry(resp), value |-> NoDoc]

\* generate_reply_email: response.content[0].text.strip(), outside any try
\* the greeting generate_reply_email puts in its prompt
Greeting(job_details) ==
  LET recruiter_name == IF job_details.recruiter_name = "None" THEN ""
                        ELSE job_details.recruiter_name
  IN IF recruiter_name # "" THEN <<"Hi ", recruiter_name, ",">> ELSE <<"Hi,">>

generate_reply_email(resp) ==
  IF resp.api = "error" THEN [raised |-> TRUE, exc |-> "APIError", value |-> ""]
  ELSE IF resp.content = "empty"
    THEN [raised |-> TRUE, exc |-> "IndexError", value |-> ""]
  ELSE [raised |-> FALSE, exc |-> "none", value |-> "reply text"]

\* generate_resume_pdf reads the document with .get(key, default): a value
\* that is no object has no .get
PdfError(doc) == IF doc.kind # "object" THEN "AttributeError" ELSE "none"

\* ------------------------------------------------------------ skill names
(* A skill name is a sequence of characters, so that lower() and the       *)
(* trimming of the ledger's identity are computed, not assumed.            *)
LowerChar(c) == IF c = "P" THEN "p" ELSE IF c = "Y" THEN "y" ELSE c

\* str.lower()
Lower(s) == [i \in DOMAIN s |-> LowerChar(s[i])]

RECURSIVE TrimLeft(_)
TrimLeft(s) == IF s # <<>> /\ Head(s) = " " THEN TrimLeft(Tail(s)) ELSE s

RECURSIVE TrimRight(_)
TrimRight(s) ==
  IF s # <<>> /\ s[Len(s)] = " " THEN TrimRight(SubSeq(s, 1, Len(s) - 1)) ELSE s

\* the ledger identity of the data model: case-fold + trim
Normalize(s) == TrimRight(TrimLeft(Lower(s)))

\* one item of the extraction's JSON array
Mention(name, category, context) ==
  [name |-> name, category |-> category, context |-> context]

Mentions ==
  {Mention(<<"P", "y">>, "backend", "ctxA"),
   Mention(<<"p", "y">>, "cloud", "ctxB"),
   Mention(<<" ", "p", "y">>, "backend", "ctxA")}

SeqsUpTo(S, n) == UNION {[1..k -> S] : k \in 0..n}

\* ------------------------------------------------------------------ state
VARIABLES
  processed_emails,   \* table processed_emails: the rows in insertion order
  skill_learnings,    \* table skill_learnings: the rows in insertion order
  inv,                \* per process: the request it serves and where it is
  session,            \* per process: its database session
  started,            \* requests started so far
  last,               \* the classify request that finished last
  last_attempt,       \* the ProcessedEmail commit attempted last
  mention_log,        \* per user: the mentions committed, in that order
  adapter_resp,       \* the reply handed to an adapter called on its own
  adapter_out,        \* what that adapter call returned or raised
  last_batch,         \* the batch run that finished last
  resumes,            \* table resumes: the rows by id
  email_drafts,       \* table email_drafts: the rows in insertion order
  gmail_drafts,       \* drafts created in the mailbox
  req,                \* per process: its set-default or draft request
  req_log,            \* the set-default and draft requests that have ended
  tailor_base,        \* the base resume handed to tailor_resume on its own
  tailor_out,         \* what that call returned or raised
  extract_out,        \* what extract_skills_from_email, called on its own, did
  signals,            \* per row of processed_emails: the JobDetails classified
  users,              \* table users: per user, the mailbox connection
  skills,             \* table skills: the rows by id
  seq,                \* per table: the id handed out last
  crud,               \* the request of the resume and skill routes served last
  accounts,           \* table users: the sign-in columns of the rows, by id
  now,                \* the clock, in hours
  issued,             \* password reset tokens generated so far
  spent,              \* the tokens a password reset has succeeded with
  auth                \* the request of routes/auth.py served last

pipelineVars ==
  <<processed_emails, signals, skill_learnings, inv, session, started, last,
    last_attempt, mention_log>>

lastVars == <<last, last_batch>>

adapterVars == <<adapter_resp, adapter_out, tailor_base, tailor_out, extract_out>>

draftVars == <<resumes, email_drafts, gmail_drafts, req, req_log>>

crudVars == <<users, skills, seq, crud>>

\* what the requests of the email pipeline leave alone
authVars == <<accounts, now, issued, spent, auth>>

otherVars == <<adapterVars, draftVars, crudVars, authVars>>

vars == <<pipelineVars, last_batch, adapterVars, draftVars, crudVars, authVars>>

\* ------------------------------------------------------------------- rows
\* ProcessedEmail(...) of classify_email and process_emails_batch
\* email_data['subject'] of the message
Subject(m) == <<"subject of ", m>>

ProcessedEmail(u, m, jd) ==
  [user_id |-> u, gmail_id |-> m,
   subject |-> Subject(m),
   job_title |-> jd.job_title,
   company |-> jd.company,
   job_requirements |-> jd.key_requirements,
   technologies |-> jd.key_technologies,
   is_recruiter_email |-> jd.is_recruiter_email,
   confidence |-> jd.confidence]

\* the column without its unique constraint
UniqueViolationOff(rows, row) == FALSE

\* gmail_id = Column(String(255), unique=True, index=True)
UniqueViolation(rows, row) ==
  \E i \in DOMAIN rows : rows[i].gmail_id = row.gmail_id

\* a check that finds no row
AlreadyProcessedNever(rows, u, m) == FALSE

\* the filter of the already-processed check of process_emails_batch
AlreadyProcessed(rows, u, m) ==
  \E i \in DOMAIN rows : rows[i].gmail_id = m /\ rows[i].user_id = u

\* .filter(X.id == i, X.user_id == current_user.id).first() finds a row
Owned(rows, u, i) == i \in DOMAIN rows /\ rows[i].user_id = u

\* the name taken as it is written
SkillKeyExact(skill) == skill.name

\* skill['name'].lower(): the name the ledger is searched and stored under
SkillKey(skill) == Lower(skill.name)

\* SkillLearning(...) of learn_skills_from_email
SkillLearning(u, skill) ==
  [user_id |-> u, skill_name |-> SkillKey(skill), category |-> skill.category,
   occurrence_count |-> 1, contexts |-> <<skill.context>>]

\* the branch without its append
UpdateExistingNoAppend(row, skill) ==
  [row EXCEPT !.occurrence_count = @ + 1]

\* the branch of learn_skills_from_email for a skill already tracked
UpdateExisting(row, skill) ==
  [row EXCEPT !.occurrence_count = @ + 1,
              !.contexts = Append(@, skill.context)]

\* ---------------------------------------------------------------- session
(* A session keeps the rows it has loaded (its identity map: a query that  *)
(* finds a loaded row returns the session's object, not the stored values) *)
(* and the rows added but not yet committed.  commit() writes both and     *)
(* expires the loaded rows.  A commit that fails in its flush leaves the   *)
(* session inactive until rollback() is called.                            *)
\* a session holds the rows it has loaded and changed, the rows added to it,
\* and the mentions these changes come from (pending until a commit)
NewSession ==
  [loaded |-> {}, new |-> <<>>, pending |-> <<>>, inactive |-> FALSE]

\* a query flushes the session first, so it finds the rows added by it
autoflush == TRUE

IsLoaded(s, i) == \E e \in s.loaded : e.id = i

\* row i as the session sees it
Current(s, i) ==
  IF IsLoaded(s, i) THEN (CHOOSE e \in s.loaded : e.id = i).row
  ELSE skill_learnings[i]

\* the rows db.query(SkillLearning).filter(user_id, skill_name) matches
Matches(s, u, key) ==
  {[at |-> "db", i |-> i] : i \in
     {j \in DOMAIN skill_learnings :
        skill_learnings[j].user_id = u /\ skill_learnings[j].skill_name = key}}
  \cup
  {[at |-> "new", i |-> k] : k \in
     {j \in DOMAIN s.new :
        autoflush /\ s.new[j].user_id = u /\ s.new[j].skill_name = key}}

\* the session after the loop body of learn_skills_from_email found t
Modify(s, t, skill) ==
  IF t.at = "db"
    THEN [s EXCEPT !.loaded =
            {e \in @ : e.id # t.i}
              \cup {[id |-> t.i, row |-> UpdateExisting(Current(s, t.i), skill)]}]
    ELSE [s EXCEPT !.new[t.i] = UpdateExisting(@, skill)]

\* the table after the session's flush is committed: an UPDATE of the columns
\* the loop assigns for every loaded row, an INSERT for every added one
Committed(s) ==
  [i \in DOMAIN skill_learnings |->
     IF IsLoaded(s, i)
       THEN [skill_learnings[i] EXCEPT
               !.occurrence_count = Current(s, i).occurrence_count,
               !.contexts = Current(s, i).contexts]
       ELSE skill_learnings[i]]
  \o s.new

\* the mentions recorded once the session is committed for user u
MentionsCommitted(s, u) == [mention_log EXCEPT ![u] = @ \o s.pending]

\* the rows of a user as the session of a process sees them
View(s) == [i \in DOMAIN skill_learnings |-> Current(s, i)] \o s.new

\* ---------------------------------------------------------------- replies
RecruiterJson ==
  JsonObjectWith(JsonObject("true", "number", 90, "list", "string"),
                 OptionalKeys)
NotRecruiterJson == JsonObject("false", "number", 80, "absent", "absent")
NoFlagJson == JsonObject("absent", "number", 90, "list", "string")
NoConfidenceJson == JsonObject("true", "absent", 0, "list", "string")
ConfidenceStringJson == JsonObject("true", "string", 0, "list", "string")
ConfidenceHighJson == JsonObject("true", "number", 150, "list", "string")
NullListJson == JsonObject("true", "number", 90, "null", "string")

\* the replies the requests of the pipeline draw the classification from
ClassifyReplies ==
  {ApiError,
   TextReply(<<FenceJson, JsonTok(RecruiterJson), Fence>>),
   TextReply(<<Prose>>),
   TextReply(<<JsonTok(NoConfidenceJson)>>)}

\* the replies they draw the skill extraction from
\* an item of the extracted list that has no "name"
MentionNoName == [category |-> "cloud", context |-> "ctxB"]

\* skill['name'] can be read
HasName(skill) == "name" \in DOMAIN skill

SkillReplies ==
  {ApiError, TextReply(<<Prose>>), TextReply(<<JsonTok(RecruiterJson)>>),
   TextReply(<<JsonTok(JsonArray(
     <<Mention(<<"P", "y">>, "backend", "ctxA"), MentionNoName>>))>>)}
  \cup {TextReply(<<JsonTok(JsonArray(ms))>>) : ms \in SeqsUpTo(Mentions, MaxMentions)}

\* ------------------------------------------------------------------- Init
IdleInv ==
  [pc |-> "idle", op |-> "none", user_id |-> 0, gmail_ids |-> <<>>,
   gmail_id |-> "", job_details |-> NoJobDetails, skills |-> <<>>, fetches |-> 0,
   calls |-> 0, seen |-> FALSE, ack |-> 0, skipped |-> 0]

NoRequest ==
  [user_id |-> 0, gmail_id |-> "", status |-> "none", fetches |-> 0,
   calls |-> 0, seen |-> FALSE]

NoAttempt ==
  [op |-> "none", user_id |-> 0, gmail_id |-> "", own |-> FALSE,
   foreign |-> FALSE, ok |-> FALSE]

NotCalled == [raised |-> FALSE, exc |-> "not called", value |-> NoJobDetails]

NoBatch == [user_id |-> 0, ack |-> 0, skipped |-> 0]

NotTailored == [raised |-> FALSE, exc |-> "not called", value |-> NoDoc]

NotExtracted == [raised |-> FALSE, exc |-> "not called", value |-> NoVal]

\* a row of the table users: what get_gmail_service reads
User(connected) == [gmail_connected |-> connected]

Connected == [u \in Users |-> User(TRUE)]

NoCrud ==
  [op |-> "none", user_id |-> 0, id |-> 0, code |-> 0, detail |-> "",
   data |-> {}]

ResumeIds == {1, 2, 3}

\* resumes 1 and 2 belong to user 1, resume 3 to user 2
ResumeOwner(i) == IF i = 3 THEN 2 ELSE 1

\* a row of the table resumes
Resume(i, is_default) ==
  [user_id |-> ResumeOwner(i), is_default |-> is_default,
   content |-> IF i = 1 THEN "r1" ELSE IF i = 2 THEN "r2" ELSE "r3"]

ResumeTable(flags) == [i \in ResumeIds |-> Resume(i, flags[i])]

IdleReq ==
  [pc |-> "idle", op |-> "none", user_id |-> 0, given |-> 0, resume_id |-> 0,
   processed_email_id |-> 0, is_default |-> FALSE, cleared |-> {},
   job_details |-> NoJobDetails, greeting |-> <<>>, subject |-> <<>>,
   base |-> NoDoc, tailored |-> NoDoc, reply_text |-> "", pdf |-> FALSE,
   gmail_draft_id |-> 0, before |-> <<>>]

\* no request is running and none has been served
InitIdle ==
  /\ inv = [p \in Procs |-> IdleInv]
  /\ session = [p \in Procs |-> NewSession]
  /\ started = 0
  /\ last = NoRequest
  /\ last_attempt = NoAttempt
  /\ adapter_resp = EmptyContent
  /\ adapter_out = NotCalled
  /\ last_batch = NoBatch
  /\ req = [p \in Procs |-> IdleReq]
  /\ req_log = <<>>
  /\ tailor_base = NoDoc
  /\ tailor_out = NotTailored
  /\ extract_out = NotExtracted
  /\ crud = NoCrud
  /\ accounts = <<>>
  /\ now = 0
  /\ issued = 0
  /\ spent = {}
  /\ auth = [n |-> 0, op |-> "none", user |-> 0, data |-> <<>>,
             answer |-> [code |-> 200, access_token |-> <<>>,
                         requires_2fa |-> FALSE]]

\* what Init sets apart from the tables resumes, users and processed_emails
InitRest ==
  /\ InitIdle
  /\ skill_learnings = <<>>
  /\ mention_log = [u \in Users |-> <<>>]
  /\ email_drafts = <<>>
  /\ gmail_drafts = 0
  /\ skills = <<>>
  /\ seq = [resumes |-> 3, skills |-> 0]

Init ==
  /\ processed_emails = <<>>
  /\ signals = <<>>
  /\ resumes = ResumeTable(<<TRUE, FALSE, TRUE>>)
  /\ users = Connected
  /\ InitRest

\* the resumes as create_resume, delete_resume and set_default_resume can
\* leave them: create_resume makes a user's first resume the default (two
\* requests that both count no resume make two), delete_resume can remove it
InitResumes ==
  /\ processed_emails = <<>>
  /\ signals = <<>>
  /\ users = Connected
  /\ \E flags \in [ResumeIds -> BOOLEAN] : resumes = ResumeTable(flags)
  /\ InitRest

\* the tables when a draft is asked for: user 1 has a classified recruiter
\* mail, the resumes are as above
InitDraft ==
  /\ processed_emails =
       <<ProcessedEmail(1, "m1", JobDetails(RecruiterJson))>>
  /\ signals = <<JobDetails(RecruiterJson)>>
  /\ \E flags \in [ResumeIds -> BOOLEAN] : resumes = ResumeTable(flags)
  /\ \E c \in BOOLEAN : users = [Connected EXCEPT ![1] = User(c)]
  /\ InitRest

\* a service handed out whatever the connection
GmailNotConnectedNever(user) == FALSE

\* the test of get_gmail_service (the token is stored when the mailbox is
\* connected)
GmailNotConnected(user) == ~user.gmail_connected

\* a batch task that runs whatever the user row holds
NoBatchForNever(us, u) == FALSE

\* the test at the head of process_emails_batch: no user row, or a mailbox
\* that is not connected
NoBatchFor(us, u) == u \notin DOMAIN us \/ ~us[u].gmail_connected

\* a request is served by the first idle process: the processes differ in
\* nothing but their names
FirstIdle(p) ==
  /\ inv[p].pc = "idle"
  /\ \A q \in Procs : (q = "p1" /\ p # "p1") => inv[q].pc # "idle"

\* ------------------------------------------------------ how a request ends
\* a loop that leaves out the id after the current one
AfterItemSkipNext(r) ==
  IF Len(r.gmail_ids) <= 2 THEN IdleInv
  ELSE [r EXCEPT !.pc = "b_check", !.gmail_ids = Tail(Tail(@)), !.gmail_id = "",
                 !.job_details = NoJobDetails, !.skills = <<>>,
                 !.fetches = 0, !.calls = 0]

\* process_emails_batch after the current id: the next id, or the end
AfterItem(r) ==
  IF Len(r.gmail_ids) <= 1 THEN IdleInv
  ELSE [r EXCEPT !.pc = "b_check", !.gmail_ids = Tail(@), !.gmail_id = "",
                 !.job_details = NoJobDetails, !.skills = <<>>,
                 !.fetches = 0, !.calls = 0]

Finished(r, status) ==
  [user_id |-> r.user_id, gmail_id |-> r.gmail_id, status |-> status,
   fetches |-> r.fetches, calls |-> r.calls, seen |-> r.seen]

\* the request of p is over with the status given (classify_email returns, or
\* an exception leaves it), or the batch goes on to its next id
End(p, status) ==
  IF inv[p].op = "classify"
    THEN /\ inv' = [inv EXCEPT ![p] = IdleInv]
         /\ last' = Finished(inv[p], status)
         /\ last_batch' = last_batch
    ELSE /\ inv' = [inv EXCEPT ![p] = AfterItem(inv[p])]
         /\ last' = last
         /\ last_batch' = IF Len(inv[p].gmail_ids) <= 1
                             THEN [user_id |-> inv[p].user_id, ack |-> inv[p].ack,
                                   skipped |-> inv[p].skipped]
                             ELSE last_batch

\* ---------------------------------------------------------- classify_email
StartClassify(p, u, m) ==
  /\ FirstIdle(p)
  /\ started < MaxInvocations
  /\ started' = started + 1
  /\ inv' = [inv EXCEPT ![p] =
       [IdleInv EXCEPT !.pc = "c_fetch", !.op = "classify", !.user_id = u,
                       !.gmail_id = m,
                       !.seen = AlreadyProcessed(processed_emails, u, m)]]
  /\ session' = [session EXCEPT ![p] = NewSession]
  /\ UNCHANGED <<processed_emails, signals, skill_learnings, lastVars, last_attempt,
                 mention_log, otherVars>>

\* get_gmail_service and gmail.get_email: the mailbox answers or raises
ClassifyFetch(p) ==
  /\ inv[p].pc = "c_fetch"
  /\ \E ok \in IF GmailNotConnected(users[inv[p].user_id]) THEN {FALSE}
                ELSE BOOLEAN :
       IF ok THEN /\ inv' = [inv EXCEPT ![p].pc = "c_classify",
                                         ![p].fetches = @ + 1]
                  /\ UNCHANGED lastVars
       ELSE End(p, "error")
  /\ UNCHANGED <<processed_emails, signals, skill_learnings, session, started,
                 last_attempt, mention_log, otherVars>>

\* claude_service.classify_email(email_data)
ClassifyCall(p) ==
  /\ inv[p].pc = "c_classify"
  /\ \E resp \in ClassifyReplies :
       LET out == classify_email(resp)
           called == [inv EXCEPT ![p].calls = @ + 1]
       IN IF out.raised
            THEN /\ inv' = [inv EXCEPT ![p] = IdleInv]
                 /\ last' = Finished(called[p], "error")
                 /\ last_batch' = last_batch
            ELSE /\ inv' = [called EXCEPT ![p].pc = "c_insert",
                                          ![p].job_details = out.value]
                 /\ UNCHANGED lastVars
  /\ UNCHANGED <<processed_emails, signals, skill_learnings, session, started,
                 last_attempt, mention_log, otherVars>>

Attempt(r, ok) ==
  [op |-> r.op, user_id |-> r.user_id, gmail_id |-> r.gmail_id,
   own |-> AlreadyProcessed(processed_emails, r.user_id, r.gmail_id),
   foreign |-> \E i \in DOMAIN processed_emails :
                 /\ processed_emails[i].gmail_id = r.gmail_id
                 /\ processed_emails[i].user_id # r.user_id,
   ok |-> ok]

\* the test before learn_skills_from_email
ShouldLearn(job_details) == job_details.is_recruiter_email

\* db.add(processed); db.commit() and what follows it in classify_email
ClassifyInsert(p) ==
  /\ inv[p].pc = "c_insert"
  /\ LET r == inv[p]
         row == ProcessedEmail(r.user_id, r.gmail_id, r.job_details)
     IN IF UniqueViolation(processed_emails, row)
          THEN /\ last_attempt' = Attempt(r, FALSE)
               /\ session' = [session EXCEPT ![p].inactive = TRUE]
               /\ End(p, "error")
               /\ UNCHANGED <<processed_emails, signals, skill_learnings,
                              mention_log>>
          ELSE /\ last_attempt' = Attempt(r, TRUE)
               /\ processed_emails' = Append(processed_emails, row)
               /\ signals' = Append(signals, r.job_details)
               /\ skill_learnings' = Committed(session[p])
               /\ mention_log' = MentionsCommitted(session[p], r.user_id)
               /\ session' = [session EXCEPT ![p] = NewSession]
               /\ IF ShouldLearn(r.job_details)
                    THEN inv' = [inv EXCEPT ![p].pc = "l_extract"] /\ UNCHANGED lastVars
                    ELSE End(p, "ok")
  /\ UNCHANGED <<started, otherVars>>

\* ---------------------------------------- batch_classify_emails and its task
\* the route acknowledges the ids; the task returns at once for a user it
\* cannot serve
StartBatch(p, u, ids) ==
  /\ FirstIdle(p)
  /\ started < MaxInvocations
  /\ started' = started + 1
  /\ IF NoBatchFor(users, u)
       THEN /\ last_batch' = [user_id |-> u, ack |-> Len(ids), skipped |-> 0]
            /\ UNCHANGED <<inv, session, last>>
       ELSE /\ inv' = [inv EXCEPT ![p] =
                 [IdleInv EXCEPT !.pc = "b_check", !.op = "batch",
                                 !.user_id = u, !.gmail_ids = ids,
                                 !.ack = Len(ids)]]
            /\ session' = [session EXCEPT ![p] = NewSession]
            /\ UNCHANGED lastVars
  /\ UNCHANGED <<processed_emails, signals, skill_learnings, last_attempt,
                 mention_log, otherVars>>

\* the already-processed check at the head of the loop body
BatchCheck(p) ==
  /\ inv[p].pc = "b_check"
  /\ LET r == inv[p]
         m == Head(r.gmail_ids)
     IN IF session[p].inactive
          THEN End(p, "error")
        ELSE IF AlreadyProcessed(processed_emails, r.user_id, m)
          THEN /\ inv' = [inv EXCEPT ![p] =
                    AfterItem([r EXCEPT !.skipped = @ + 1])]
               /\ last' = last
               /\ last_batch' = IF Len(r.gmail_ids) <= 1
                                   THEN [user_id |-> r.user_id, ack |-> r.ack,
                                         skipped |-> r.skipped + 1]
                                   ELSE last_batch
        ELSE inv' = [inv EXCEPT ![p].pc = "b_fetch", ![p].gmail_id = m]
             /\ UNCHANGED lastVars
  /\ UNCHANGED <<processed_emails, signals, skill_learnings, session, started,
                 last_attempt, mention_log, otherVars>>

BatchFetch(p) ==
  /\ inv[p].pc = "b_fetch"
  /\ \E ok \in BOOLEAN :
       IF ok THEN /\ inv' = [inv EXCEPT ![p].pc = "b_classify",
                                         ![p].fetches = @ + 1]
                  /\ UNCHANGED lastVars
       ELSE End(p, "error")
  /\ UNCHANGED <<processed_emails, signals, skill_learnings, session, started,
                 last_attempt, mention_log, otherVars>>

BatchClassify(p) ==
  /\ inv[p].pc = "b_classify"
  /\ \E resp \in ClassifyReplies :
       LET out == classify_email(resp)
       IN IF out.raised THEN End(p, "error")
          ELSE /\ inv' = [inv EXCEPT ![p].pc = "b_insert",
                                     ![p].calls = @ + 1,
                                     ![p].job_details = out.value]
               /\ UNCHANGED lastVars
  /\ UNCHANGED <<processed_emails, signals, skill_learnings, session, started,
                 last_attempt, mention_log, otherVars>>

BatchInsert(p) ==
  /\ inv[p].pc = "b_insert"
  /\ LET r == inv[p]
         row == ProcessedEmail(r.user_id, r.gmail_id, r.job_details)
     IN IF UniqueViolation(processed_emails, row)
          THEN /\ last_attempt' = Attempt(r, FALSE)
               /\ session' = [session EXCEPT ![p].inactive = TRUE]
               /\ End(p, "error")
               /\ UNCHANGED <<processed_emails, signals, skill_learnings,
                              mention_log>>
          ELSE /\ last_attempt' = Attempt(r, TRUE)
               /\ processed_emails' = Append(processed_emails, row)
               /\ signals' = Append(signals, r.job_details)
               /\ skill_learnings' = Committed(session[p])
               /\ mention_log' = MentionsCommitted(session[p], r.user_id)
               /\ session' = [session EXCEPT ![p] = NewSession]
               /\ IF ShouldLearn(r.job_details)
                    THEN inv' = [inv EXCEPT ![p].pc = "l_extract"] /\ UNCHANGED lastVars
                    ELSE End(p, "ok")
  /\ UNCHANGED <<started, otherVars>>

\* ------------------------------------------------- learn_skills_from_email
\* mentions extracted or recorded so far
MentionsSoFar ==
  LET RECURSIVE Logged(_)
      Logged(S) == IF S = {} THEN 0
                   ELSE LET x == CHOOSE y \in S : TRUE
                        IN Len(mention_log[x]) + Logged(S \ {x})
      RECURSIVE Waiting(_)
      Waiting(S) == IF S = {} THEN 0
                    ELSE LET x == CHOOSE y \in S : TRUE
                         IN Len(inv[x].skills) + Waiting(S \ {x})
      RECURSIVE Pending(_)
      Pending(S) == IF S = {} THEN 0
                    ELSE LET x == CHOOSE y \in S : TRUE
                         IN Len(session[x].pending) + Pending(S \ {x})
  IN Logged(Users) + Waiting(Procs) + Pending(Procs)

\* claude_service.extract_skills_from_email(email_data); the loop raises at
\* once on a value that is no array
LearnExtract(p) ==
  /\ inv[p].pc = "l_extract"
  /\ \E resp \in SkillReplies :
       LET out == extract_skills_from_email(resp)
       IN IF out.raised \/ out.value.kind # "array" THEN End(p, "error")
          ELSE /\ MentionsSoFar + Len(out.value.items) <= MaxLedgerMentions
               /\ inv' = [inv EXCEPT
                    ![p].skills = out.value.items,
                    ![p].pc = IF out.value.items = <<>> THEN "l_commit"
                              ELSE "l_mention"]
               /\ UNCHANGED lastVars
  /\ UNCHANGED <<processed_emails, signals, skill_learnings, session, started,
                 last_attempt, mention_log, otherVars>>

\* one pass of the loop: the query and the branch it selects. An item without
\* a name raises KeyError out of learn_skills_from_email: what the session
\* holds stays in it, and is gone with it when the request is over
LearnMention(p) ==
  /\ inv[p].pc = "l_mention"
  /\ LET r == inv[p]
         skill == Head(r.skills)
     IN IF ~HasName(skill)
          THEN /\ End(p, "error")
               /\ session' = IF r.op = "classify" \/ Len(r.gmail_ids) <= 1
                                THEN [session EXCEPT ![p] = NewSession]
                                ELSE session
          ELSE LET found == Matches(session[p], r.user_id, SkillKey(skill))
               IN /\ \E s \in IF found = {}
                                 THEN {[session[p] EXCEPT !.new =
                                          Append(@, SkillLearning(r.user_id, skill))]}
                                 ELSE {Modify(session[p], t, skill) : t \in found} :
                        session' = [session EXCEPT ![p] =
                                      [s EXCEPT !.pending = Append(@, skill)]]
                  /\ inv' = [inv EXCEPT
                       ![p].skills = Tail(@),
                       ![p].pc = IF Len(r.skills) = 1 THEN "l_commit"
                                 ELSE "l_mention"]
                  /\ UNCHANGED lastVars
  /\ UNCHANGED <<processed_emails, signals, skill_learnings, started,
                 last_attempt, mention_log, otherVars>>

\* db.commit() at the end of learn_skills_from_email, and the return to the
\* caller
LearnCommit(p) ==
  /\ inv[p].pc = "l_commit"
  /\ skill_learnings' = Committed(session[p])
  /\ mention_log' = MentionsCommitted(session[p], inv[p].user_id)
  /\ session' = [session EXCEPT ![p] = NewSession]
  /\ End(p, "ok")
  /\ UNCHANGED <<processed_emails, signals, started, last_attempt, otherVars>>

\* ------------------------------------------------------ set_default_resume
\* a request of the resume or draft routes is served by the first idle process
FirstIdleReq(p) ==
  /\ req[p].pc = "idle"
  /\ \A q \in Procs : (q = "p1" /\ p # "p1") => req[q].pc # "idle"

\* what the email pipeline's variables are left as by these routes
pipelineRest ==
  <<signals, skill_learnings, inv, session, last, last_attempt, mention_log,
    last_batch, adapterVars, authVars>>

\* what the caller gets when a request ends at the step: the HTTPException
\* raised there, the 500 of an exception that nothing catches, or the result
Response(step) ==
  CASE step = "lookup" ->
         [code |-> 404, detail |-> "Resume not found"]
    [] step = "lookup_email" ->
         [code |-> 404, detail |-> "Processed email not found"]
    [] step = "lookup_resume" ->
         [code |-> 400, detail |-> "No resume found. Please create one first."]
    [] step = "connect" ->
         [code |-> 400, detail |-> "Gmail not connected"]
    [] step \in {"commit", "store"} -> [code |-> 200, detail |-> ""]
    [] OTHER -> [code |-> 500, detail |-> "Internal Server Error"]

Ended(r, status, step) ==
  [op |-> r.op, user_id |-> r.user_id, given |-> r.given,
   resume_id |-> r.resume_id, processed_email_id |-> r.processed_email_id,
   status |-> status, step |-> step, code |-> Response(step).code,
   detail |-> Response(step).detail, before |-> r.before]

\* no row matches the filter
DefaultsOfNone(rows, u) == {}

\* the rows Resume.user_id == u, Resume.is_default == True selects
DefaultsOf(rows, u) ==
  {i \in DOMAIN rows : rows[i].user_id = u /\ rows[i].is_default}

\* rows another request has updated and not yet committed
LockedByOthers(p) == UNION {req[q].cleared : q \in Procs \ {p}}

\* the lookup of the resume, 404 when the user has no such resume
SetDefaultLookup(p, u, i) ==
  /\ FirstIdleReq(p)
  /\ started < MaxInvocations
  /\ started' = started + 1
  /\ LET r == [IdleReq EXCEPT !.op = "set_default", !.user_id = u,
                              !.given = i, !.resume_id = i,
                              !.before = resumes]
     IN IF Owned(resumes, u, i)
          THEN /\ req' = [req EXCEPT ![p] =
                    [r EXCEPT !.pc = "s_clear",
                              !.is_default = resumes[i].is_default]]
               /\ req_log' = req_log
          ELSE /\ req' = req
               /\ req_log' = Append(req_log, Ended(r, "error", "lookup"))
  /\ UNCHANGED <<processed_emails, resumes, email_drafts, gmail_drafts,
                 pipelineRest, crudVars>>

\* db.query(Resume).filter(...).update({"is_default": False}): an UPDATE inside
\* the request's transaction, which waits for the rows another transaction has
\* updated; the rows it changes stay invisible to others until the commit.  The
\* resume object the session holds is synchronized when it meets the filter.
SetDefaultClear(p) ==
  /\ req[p].pc = "s_clear"
  /\ LET matched == DefaultsOf(resumes, req[p].user_id)
     IN /\ matched \cap LockedByOthers(p) = {}
        /\ req' = [req EXCEPT ![p].pc = "s_commit",
                              ![p].cleared = matched,
                              ![p].is_default = FALSE]
  /\ UNCHANGED <<processed_emails, resumes, email_drafts, gmail_drafts,
                 req_log, started, pipelineRest, crudVars>>

\* resume.is_default = True; db.commit(): the flush writes the flag when the
\* assignment changed the object, the commit makes both updates visible
SetDefaultCommit(p) ==
  /\ req[p].pc = "s_commit"
  /\ LET r == req[p]
         dirty == ~r.is_default
     IN /\ dirty => r.resume_id \notin LockedByOthers(p)
        /\ resumes' =
             [i \in DOMAIN resumes |->
                IF i = r.resume_id /\ dirty
                  THEN [resumes[i] EXCEPT !.is_default = TRUE]
                ELSE IF i \in r.cleared
                  THEN [resumes[i] EXCEPT !.is_default = FALSE]
                ELSE resumes[i]]
        /\ req' = [req EXCEPT ![p] = IdleReq]
        /\ req_log' = Append(req_log, Ended(r, "ok", "commit"))
  /\ UNCHANGED <<processed_emails, email_drafts, gmail_drafts, started,
                 pipelineRest, crudVars>>

\* ------------------------------------------------------------ create_draft
\* a JSON document of the shape of the base resume, reworded
TailoredJson == DocValue("object", ResumeKeys, "tailored")

\* the replies a draft request draws the tailored resume from
TailorReplies ==
  {ApiError,
   TextReply(<<FenceJson, JsonTok(TailoredJson), Fence>>),
   TextReply(<<Prose>>),
   TextReply(<<JsonTok(DocValue("object", {}, "tailored"))>>),
   TextReply(<<JsonTok(DocValue("array", {}, "tailored"))>>)}

\* the replies it draws the reply text from
ComposeReplies == {ApiError, EmptyContent, TextReply(<<Prose>>)}

\* a draft stored as sent already
EmailDraftSent(r) ==
  [user_id |-> r.user_id, processed_email_id |-> r.processed_email_id,
   gmail_draft_id |-> r.gmail_draft_id, subject |-> r.subject,
   body |-> r.reply_text, tailored_resume |-> r.tailored, status |-> "sent"]

\* EmailDraft(...) of create_draft
EmailDraft(r) ==
  [user_id |-> r.user_id, processed_email_id |-> r.processed_email_id,
   gmail_draft_id |-> r.gmail_draft_id, subject |-> r.subject,
   body |-> r.reply_text, tailored_resume |-> r.tailored, status |-> "draft"]

\* f"Re: {processed.subject}"
ReSubject(processed) == <<"Re: ">> \o processed.subject

\* JobDetails(...) of create_draft, built from the columns of the processed
\* email; the fields it does not name take the defaults of the schema
StoredJobDetails(processed) ==
  [is_recruiter_email |-> processed.is_recruiter_email,
   confidence |-> processed.confidence,
   job_title |-> processed.job_title,
   company |-> processed.company,
   key_requirements |-> processed.job_requirements,
   key_technologies |-> processed.technologies,
   job_type |-> "None", seniority_level |-> "None", salary_range |-> "None",
   recruiter_name |-> "None", reason |-> ""]

\* the resumes the request can use: the one it names, or a default of the user
ResumeFor(u, i) ==
  IF i # 0 THEN {j \in DOMAIN resumes : j = i /\ Owned(resumes, u, j)}
  ELSE DefaultsOf(resumes, u)

\* an exception that leaves create_draft with a half-built draft stored
DraftAbortStoring(p, step) ==
  /\ req' = [req EXCEPT ![p] = IdleReq]
  /\ req_log' = Append(req_log, Ended(req[p], "error", step))
  /\ email_drafts' = Append(email_drafts, EmailDraft(req[p]))

\* an exception leaves create_draft: nothing has been added to the session
DraftAbort(p, step) ==
  /\ req' = [req EXCEPT ![p] = IdleReq]
  /\ req_log' = Append(req_log, Ended(req[p], "error", step))
  /\ email_drafts' = email_drafts

\* the lookups of the processed email (404) and of the resume (400)
DraftLookup(p, u, e, i) ==
  /\ FirstIdleReq(p)
  /\ started < MaxInvocations
  /\ started' = started + 1
  /\ LET r == [IdleReq EXCEPT !.op = "create_draft", !.user_id = u,
                              !.processed_email_id = e, !.given = i,
                              !.resume_id = i, !.before = email_drafts]
         found == Owned(processed_emails, u, e)
     IN IF ~found
          THEN /\ req' = req
               /\ req_log' = Append(req_log, Ended(r, "error", "lookup_email"))
        ELSE IF ResumeFor(u, i) = {}
          THEN /\ req' = req
               /\ req_log' = Append(req_log, Ended(r, "error", "lookup_resume"))
        ELSE /\ \E j \in ResumeFor(u, i) :
                  req' = [req EXCEPT ![p] =
                            [r EXCEPT !.pc = "d_tailor", !.resume_id = j,
                                      !.base = BaseResume(resumes[j].content),
                                      !.subject =
                                        ReSubject(processed_emails[e]),
                                      !.job_details =
                                        StoredJobDetails(processed_emails[e])]]
             /\ req_log' = req_log
  /\ UNCHANGED <<processed_emails, resumes, email_drafts, gmail_drafts,
                 pipelineRest, crudVars>>

\* claude_service.tailor_resume(base_resume, job_details)
DraftTailor(p) ==
  /\ req[p].pc = "d_tailor"
  /\ \E resp \in TailorReplies :
       LET out == tailor_resume(req[p].base, resp)
       IN IF out.raised THEN DraftAbort(p, "tailor")
          ELSE /\ req' = [req EXCEPT ![p].pc = "d_reply",
                                     ![p].tailored = out.value]
               /\ UNCHANGED <<req_log, email_drafts>>
  /\ UNCHANGED <<processed_emails, resumes, gmail_drafts, started,
                 pipelineRest, crudVars>>

\* the reply composed and the rendering left out
DraftReplyThenGmail(p) ==
  /\ req[p].pc = "d_reply"
  /\ \E resp \in ComposeReplies :
       LET out == generate_reply_email(resp)
       IN IF out.raised THEN DraftAbort(p, "reply")
          ELSE /\ req' = [req EXCEPT ![p].pc = "d_gmail",
                                     ![p].greeting = Greeting(req[p].job_details),
                                     ![p].reply_text = out.value]
               /\ UNCHANGED <<req_log, email_drafts>>
  /\ UNCHANGED <<processed_emails, resumes, gmail_drafts, started,
                 pipelineRest, crudVars>>

\* claude_service.generate_reply_email(...)
DraftReply(p) ==
  /\ req[p].pc = "d_reply"
  /\ \E resp \in ComposeReplies :
       LET out == generate_reply_email(resp)
       IN IF out.raised THEN DraftAbort(p, "reply")
          ELSE /\ req' = [req EXCEPT ![p].pc = "d_pdf",
                                     ![p].greeting = Greeting(req[p].job_details),
                                     ![p].reply_text = out.value]
               /\ UNCHANGED <<req_log, email_drafts>>
  /\ UNCHANGED <<processed_emails, resumes, gmail_drafts, started,
                 pipelineRest, crudVars>>

\* pdf_service.generate_resume_pdf(tailored_resume): the renderer can also
\* reject what the document holds
DraftPdf(p) ==
  /\ req[p].pc = "d_pdf"
  /\ \E ok \in BOOLEAN :
       IF ok /\ PdfError(req[p].tailored) = "none"
         THEN /\ req' = [req EXCEPT ![p].pc = "d_gmail", ![p].pdf = TRUE]
              /\ UNCHANGED <<req_log, email_drafts>>
         ELSE DraftAbort(p, "pdf")
  /\ UNCHANGED <<processed_emails, resumes, gmail_drafts, started,
                 pipelineRest, crudVars>>

\* get_gmail_service(current_user) and gmail.create_draft(...)
DraftGmail(p) ==
  /\ req[p].pc = "d_gmail"
  /\ IF GmailNotConnected(users[req[p].user_id])
       THEN /\ DraftAbort(p, "connect")
            /\ gmail_drafts' = gmail_drafts
       ELSE \E ok \in BOOLEAN :
              IF ok
                THEN /\ gmail_drafts' = gmail_drafts + 1
                     /\ req' = [req EXCEPT ![p].pc = "d_store",
                                           ![p].gmail_draft_id = gmail_drafts + 1]
                     /\ UNCHANGED <<req_log, email_drafts>>
                ELSE /\ DraftAbort(p, "gmail")
                     /\ gmail_drafts' = gmail_drafts
  /\ UNCHANGED <<processed_emails, resumes, started, pipelineRest, crudVars>>

\* db.add(draft); db.commit() and the return of the draft; a commit that the
\* database refuses raises, and nothing is done about the mailbox draft
DraftStore(p) ==
  /\ req[p].pc = "d_store"
  /\ \E ok \in BOOLEAN :
       IF ok
         THEN /\ email_drafts' = Append(email_drafts, EmailDraft(req[p]))
              /\ req' = [req EXCEPT ![p] = IdleReq]
              /\ req_log' = Append(req_log, Ended(req[p], "ok", "store"))
         ELSE DraftAbort(p, "store_failed")
  /\ UNCHANGED <<processed_emails, resumes, gmail_drafts, started,
                 pipelineRest, crudVars>>

\* ------------------------------------------- the resume and skill routes
(* The handlers of routes/resumes.py and routes/skills.py and the two get   *)
(* handlers of routes/emails.py query, change and commit in one go; a       *)
(* request is one step, and crud keeps what it answered.                    *)
crudRest ==
  <<processed_emails, signals, skill_learnings, inv, session, last,
    last_attempt, mention_log, last_batch, adapterVars, authVars, email_drafts,
    gmail_drafts, req, req_log, users>>

\* the table with row i added or replaced
Put(rows, i, row) ==
  [j \in DOMAIN rows \cup {i} |-> IF j = i THEN row ELSE rows[j]]

\* db.delete(row)
Remove(rows, i) == [j \in DOMAIN rows \ {i} |-> rows[j]]

Served(op, u, i, code, detail, data) ==
  [op |-> op, user_id |-> u, id |-> i, code |-> code, detail |-> detail,
   data |-> data]

\* every new resume made the default
IsFirstAlways(existing) == TRUE

\* is_default = existing == 0
IsFirst(existing) == existing = 0

\* create_resume
CreateResume(u, content) ==
  /\ seq.resumes < MaxResumes
  /\ LET id == seq.resumes + 1
         existing == Cardinality({j \in DOMAIN resumes : resumes[j].user_id = u})
         row == [user_id |-> u, is_default |-> IsFirst(existing),
                 content |-> content]
     IN /\ resumes' = Put(resumes, id, row)
        /\ seq' = [seq EXCEPT !.resumes = id]
        /\ crud' = Served("create_resume", u, id, 200, "", {row})
  /\ UNCHANGED <<crudRest, skills>>

\* get_resume
GetResume(u, i) ==
  /\ crud' = IF Owned(resumes, u, i)
               THEN Served("get_resume", u, i, 200, "", {resumes[i]})
               ELSE Served("get_resume", u, i, 404, "Resume not found", {})
  /\ UNCHANGED <<crudRest, resumes, skills, seq>>

\* the fields of ResumeUpdate; content stands for the eight of them
ResumeUpdateFields == {"content"}

\* update_resume: the body is a set of keys, with the values given; keys that
\* ResumeUpdate does not declare are dropped by the schema
UpdateResume(u, i, keys, flag) ==
  /\ IF Owned(resumes, u, i)
       THEN LET update_data == keys \cap ResumeUpdateFields
                row == [resumes[i] EXCEPT
                          !.content = IF "content" \in update_data
                                        THEN "edited" ELSE @,
                          !.is_default = IF "is_default" \in update_data
                                           THEN flag ELSE @]
            IN /\ resumes' = Put(resumes, i, row)
               /\ crud' = Served("update_resume", u, i, 200, "", {row})
       ELSE /\ resumes' = resumes
            /\ crud' = Served("update_resume", u, i, 404, "Resume not found", {})
  /\ UNCHANGED <<crudRest, skills, seq>>

\* delete_resume
DeleteResume(u, i) ==
  /\ IF Owned(resumes, u, i)
       THEN /\ resumes' = Remove(resumes, i)
            /\ crud' = Served("delete_resume", u, i, 200, "Resume deleted", {})
       ELSE /\ resumes' = resumes
            /\ crud' = Served("delete_resume", u, i, 404, "Resume not found", {})
  /\ UNCHANGED <<crudRest, skills, seq>>

\* download_resume_pdf: the PDF of the stored document
DownloadResumePdf(u, i) ==
  /\ crud' = IF Owned(resumes, u, i)
               THEN Served("download_resume_pdf", u, i, 200, "", {resumes[i]})
               ELSE Served("download_resume_pdf", u, i, 404, "Resume not found",
                           {})
  /\ UNCHANGED <<crudRest, resumes, skills, seq>>

\* get_processed_email
GetProcessedEmail(u, i) ==
  /\ crud' = IF Owned(processed_emails, u, i)
               THEN Served("get_processed_email", u, i, 200, "",
                           {processed_emails[i]})
               ELSE Served("get_processed_email", u, i, 404,
                           "Processed email not found", {})
  /\ UNCHANGED <<crudRest, resumes, skills, seq>>

\* get_draft
GetDraft(u, i) ==
  /\ crud' = IF Owned(email_drafts, u, i)
               THEN Served("get_draft", u, i, 200, "", {email_drafts[i]})
               ELSE Served("get_draft", u, i, 404, "Draft not found", {})
  /\ UNCHANGED <<crudRest, resumes, skills, seq>>

\* the names a skill request can carry
SkillNames == {<<"P", "y">>, <<"p", "y">>, <<"g", "o">>}

\* Skill(...) of create_skill, bulk_import_skills and convert_learned_skill
Skill(u, name, source) == [user_id |-> u, name |-> name, source |-> source]

\* the rows Skill.user_id == u, Skill.name == name selects
SkillsNamed(rows, u, name) ==
  {j \in DOMAIN rows : rows[j].user_id = u /\ rows[j].name = name}

\* create_skill
CreateSkill(u, name) ==
  /\ seq.skills < MaxSkills
  /\ IF SkillsNamed(skills, u, Lower(name)) # {}
       THEN /\ crud' = Served("create_skill", u, 0, 400, "Skill already exists",
                              {})
            /\ UNCHANGED <<skills, seq>>
       ELSE LET id == seq.skills + 1
                row == Skill(u, Lower(name), "manual")
            IN /\ skills' = Put(skills, id, row)
               /\ seq' = [seq EXCEPT !.skills = id]
               /\ crud' = Served("create_skill", u, id, 200, "", {row})
  /\ UNCHANGED <<crudRest, resumes>>

\* update_skill
UpdateSkill(u, i, name) ==
  /\ IF Owned(skills, u, i)
       THEN LET row == [skills[i] EXCEPT !.name = Lower(name)]
            IN /\ skills' = Put(skills, i, row)
               /\ crud' = Served("update_skill", u, i, 200, "", {row})
       ELSE /\ skills' = skills
            /\ crud' = Served("update_skill", u, i, 404, "Skill not found", {})
  /\ UNCHANGED <<crudRest, resumes, seq>>

\* delete_skill
DeleteSkill(u, i) ==
  /\ IF Owned(skills, u, i)
       THEN /\ skills' = Remove(skills, i)
            /\ crud' = Served("delete_skill", u, i, 200, "Skill deleted", {})
       ELSE /\ skills' = skills
            /\ crud' = Served("delete_skill", u, i, 404, "Skill not found", {})
  /\ UNCHANGED <<crudRest, resumes, seq>>

\* convert_learned_skill
ConvertLearnedSkill(u, i) ==
  /\ seq.skills < MaxSkills
  /\ IF ~Owned(skill_learnings, u, i)
       THEN /\ crud' = Served("convert_learned_skill", u, i, 404,
                              "Learned skill not found", {})
            /\ UNCHANGED <<skills, seq>>
     ELSE IF SkillsNamed(skills, u, skill_learnings[i].skill_name) # {}
       THEN /\ crud' = Served("convert_learned_skill", u, i, 400,
                              "Skill already exists in your profile", {})
            /\ UNCHANGED <<skills, seq>>
     ELSE LET id == seq.skills + 1
              row == Skill(u, skill_learnings[i].skill_name, "learned")
          IN /\ skills' = Put(skills, id, row)
             /\ seq' = [seq EXCEPT !.skills = id]
             /\ crud' = Served("convert_learned_skill", u, i, 200,
                               "Skill converted", {})
  /\ UNCHANGED <<crudRest, resumes>>

\* the loop of bulk_import_skills: the names added to the session so far, given
\* the names still to come; a query finds the rows of the table and, the
\* session flushing before it, the rows added
RECURSIVE Imported(_, _, _)
Imported(u, names, added) ==
  IF names = <<>> THEN added
  ELSE LET name == Lower(Head(names))
           existing ==
             \/ SkillsNamed(skills, u, name) # {}
             \/ autoflush /\ \E k \in DOMAIN added : added[k] = name
       IN Imported(u, Tail(names),
                   IF existing THEN added ELSE Append(added, name))

\* bulk_import_skills
BulkImportSkills(u, names) ==
  LET added == Imported(u, names, <<>>)
  IN /\ seq.skills + Len(added) <= MaxSkills
     /\ skills' =
          [j \in DOMAIN skills \cup (seq.skills + 1)..(seq.skills + Len(added)) |->
             IF j \in DOMAIN skills THEN skills[j]
             ELSE Skill(u, added[j - seq.skills], "import")]
     /\ seq' = [seq EXCEPT !.skills = @ + Len(added)]
     /\ crud' = Served("bulk_import_skills", u, 0, 200, "Imported", {})
     /\ UNCHANGED <<crudRest, resumes>>

\* ------------------------------------------------------------ the adapters
\* every reply: the call fails, returns no content block, or returns a text
Tokens ==
  {FenceJson, Fence, Ws, Prose}
  \cup {JsonTok(v) : v \in
         {RecruiterJson, NotRecruiterJson, NoFlagJson, NoConfidenceJson,
          ConfidenceStringJson, ConfidenceHighJson, NullListJson,
          JsonArray(<<>>), JsonScalar("number"), JsonScalar("null")}}

Replies ==
  {ApiError, EmptyContent}
  \cup {TextReply(t) : t \in SeqsUpTo(Tokens, MaxTextLen)}

\* classify_email called on its own
AdapterClassify ==
  /\ adapter_out = NotCalled
  /\ \E resp \in Replies :
       /\ adapter_resp' = resp
       /\ adapter_out' = classify_email(resp)
  /\ UNCHANGED <<pipelineVars, last_batch, draftVars, crudVars, authVars, tailor_base,
                 tailor_out, extract_out>>

\* the JSON documents a tailoring reply can hold
TailorTokens ==
  {FenceJson, Fence, Ws, Prose}
  \cup {JsonTok(v) : v \in
         {TailoredJson,
          DocValue("object", {}, "tailored"),
          DocValue("object", ResumeKeys \ {"projects"}, "tailored"),
          DocValue("array", {}, "tailored"),
          DocValue("null", {}, "none")}}

TailorTexts ==
  {ApiError, EmptyContent}
  \cup {TextReply(t) : t \in SeqsUpTo(TailorTokens, MaxTextLen)}

\* tailor_resume called on its own
AdapterTailor ==
  /\ tailor_out = NotTailored
  /\ \E base \in {BaseResume("r1"), BaseResume("r2")}, resp \in TailorTexts :
       /\ tailor_base' = base
       /\ adapter_resp' = resp
       /\ tailor_out' = tailor_resume(base, resp)
  /\ UNCHANGED <<pipelineVars, last_batch, draftVars, crudVars, authVars, adapter_out,
                 extract_out>>

\* the texts a skill extraction reply can hold
ExtractTokens ==
  {FenceJson, Fence, Ws, Prose}
  \cup {JsonTok(JsonArray(ms)) : ms \in SeqsUpTo(Mentions, 1)}
  \cup {JsonTok(RecruiterJson), JsonTok(JsonScalar("null"))}

ExtractTexts ==
  {ApiError, EmptyContent}
  \cup {TextReply(t) : t \in SeqsUpTo(ExtractTokens, MaxTextLen)}

\* extract_skills_from_email called on its own
AdapterExtract ==
  /\ extract_out = NotExtracted
  /\ \E resp \in ExtractTexts :
       /\ adapter_resp' = resp
       /\ extract_out' = extract_skills_from_email(resp)
  /\ UNCHANGED <<pipelineVars, last_batch, draftVars, crudVars, authVars, adapter_out,
                 tailor_base, tailor_out>>

\* --------------------------------------------------------- specifications
BatchLists == SeqsUpTo(GmailIds, MaxBatchLen) \ {<<>>}

Next ==
  \/ \E p \in Procs, u \in Users, m \in GmailIds : StartClassify(p, u, m)
  \/ \E p \in Procs : ClassifyFetch(p)
  \/ \E p \in Procs : ClassifyCall(p)
  \/ \E p \in Procs : ClassifyInsert(p)
  \/ \E p \in Procs, u \in Users, ids \in BatchLists : StartBatch(p, u, ids)
  \/ \E p \in Procs : BatchCheck(p)
  \/ \E p \in Procs : BatchFetch(p)
  \/ \E p \in Procs : BatchClassify(p)
  \/ \E p \in Procs : BatchInsert(p)
  \/ \E p \in Procs : LearnExtract(p)
  \/ \E p \in Procs : LearnMention(p)
  \/ \E p \in Procs : LearnCommit(p)

\* requests served concurrently
Spec == Init /\ [][Next]_vars

Busy == {p \in Procs : inv[p].pc # "idle"}

\* requests served one after another: a request starts when none is running
NextSeq ==
  \/ \E p \in Procs, u \in Users, m \in GmailIds :
       Busy = {} /\ StartClassify(p, u, m)
  \/ \E p \in Procs : ClassifyFetch(p)
  \/ \E p \in Procs : ClassifyCall(p)
  \/ \E p \in Procs : ClassifyInsert(p)
  \/ \E p \in Procs, u \in Users, ids \in BatchLists :
       Busy = {} /\ StartBatch(p, u, ids)
  \/ \E p \in Procs : BatchCheck(p)
  \/ \E p \in Procs : BatchFetch(p)
  \/ \E p \in Procs : BatchClassify(p)
  \/ \E p \in Procs : BatchInsert(p)
  \/ \E p \in Procs : LearnExtract(p)
  \/ \E p \in Procs : LearnMention(p)
  \/ \E p \in Procs : LearnCommit(p)

SpecSeq == Init /\ [][NextSeq]_vars

NextAdapter == AdapterClassify

\* an adapter called on every reply
SpecAdapter == Init /\ [][NextAdapter]_vars

NextTailor == AdapterTailor

\* the tailoring adapter called on every reply
SpecTailor == Init /\ [][NextTailor]_vars

\* no adapter has been called yet
NoneCalled ==
  /\ adapter_out = NotCalled
  /\ tailor_out = NotTailored
  /\ extract_out = NotExtracted

NextAdapters ==
  \/ NoneCalled /\ AdapterClassify
  \/ NoneCalled /\ AdapterTailor
  \/ NoneCalled /\ AdapterExtract

\* one of the three adapters called on a reply
SpecAdapters == Init /\ [][NextAdapters]_vars

\* the email pipeline, requests one after another, every step that can be
\* taken being taken in the end: a call returns or raises
SpecSeqFair == Init /\ [][NextSeq]_vars /\ WF_vars(NextSeq)

NextResume ==
  \/ \E p \in Procs, u \in Users, i \in ResumeIds : SetDefaultLookup(p, u, i)
  \/ \E p \in Procs : SetDefaultClear(p)
  \/ \E p \in Procs : SetDefaultCommit(p)

\* set-default requests served concurrently
SpecResume == InitResumes /\ [][NextResume]_vars

BusyReq == {p \in Procs : req[p].pc # "idle"}

NextResumeSeq ==
  \/ \E p \in Procs, u \in Users, i \in ResumeIds :
       BusyReq = {} /\ SetDefaultLookup(p, u, i)
  \/ \E p \in Procs : SetDefaultClear(p)
  \/ \E p \in Procs : SetDefaultCommit(p)

\* set-default requests served one after another
SpecResumeSeq == InitResumes /\ [][NextResumeSeq]_vars

NextDraft ==
  \/ \E p \in Procs, u \in Users, e \in 1..2, i \in {0} \cup ResumeIds :
       DraftLookup(p, u, e, i)
  \/ \E p \in Procs : DraftTailor(p)
  \/ \E p \in Procs : DraftReply(p)
  \/ \E p \in Procs : DraftPdf(p)
  \/ \E p \in Procs : DraftGmail(p)
  \/ \E p \in Procs : DraftStore(p)

\* draft requests served concurrently
SpecDraft == InitDraft /\ [][NextDraft]_vars

\* a request of the resume and skill routes counted among the requests started
OneMore == started < MaxInvocations /\ started' = started + 1

\* the EmailDraft a successful create_draft of user u for its email e stored
StoredDraft(u, e) ==
  EmailDraft([IdleReq EXCEPT !.user_id = u, !.processed_email_id = e,
                             !.gmail_draft_id = e, !.reply_text = "reply text",
                             !.subject =
                               <<"Re: ">> \o Subject(IF e = 1 THEN "m1" ELSE "m2"),
                             !.tailored = TailoredJson])

\* the tables after each user has classified a recruiter mail, learned the
\* skill it mentions, added a skill by hand and created a draft
InitLookup ==
  /\ InitIdle
  /\ processed_emails =
       <<ProcessedEmail(1, "m1", JobDetails(RecruiterJson)),
         ProcessedEmail(2, "m2", JobDetails(RecruiterJson))>>
  /\ signals = <<JobDetails(RecruiterJson), JobDetails(RecruiterJson)>>
  /\ skill_learnings =
       [u \in Users |->
          SkillLearning(u, Mention(<<"p", "y">>, "cloud", "ctxB"))]
  /\ mention_log =
       [u \in Users |-> <<Mention(<<"p", "y">>, "cloud", "ctxB")>>]
  /\ resumes = ResumeTable(<<TRUE, FALSE, TRUE>>)
  /\ users = Connected
  /\ skills = [u \in Users |-> Skill(u, <<"g", "o">>, "manual")]
  /\ seq = [resumes |-> 3, skills |-> 2]
  /\ email_drafts = [u \in Users |-> StoredDraft(u, u)]
  /\ gmail_drafts = 2

\* a request of these routes that the count of started requests leaves out
Uncounted == started' = started

\* the tables of two users who have a resume each and have learned a skill
\* from a recruiter mail, and no skill of their own yet
InitSkills ==
  /\ InitIdle
  /\ processed_emails =
       <<ProcessedEmail(1, "m1", JobDetails(RecruiterJson)),
         ProcessedEmail(2, "m2", JobDetails(RecruiterJson))>>
  /\ signals = <<JobDetails(RecruiterJson), JobDetails(RecruiterJson)>>
  /\ skill_learnings =
       [u \in Users |->
          SkillLearning(u, Mention(<<"p", "y">>, "cloud", "ctxB"))]
  /\ mention_log =
       [u \in Users |-> <<Mention(<<"p", "y">>, "cloud", "ctxB")>>]
  /\ resumes = ResumeTable(<<TRUE, FALSE, TRUE>>)
  /\ users = Connected
  /\ skills = <<>>
  /\ seq = [resumes |-> 3, skills |-> 0]
  /\ email_drafts = <<>>
  /\ gmail_drafts = 0

RowIds == 1..3

ImportLists == SeqsUpTo(SkillNames, MaxImport)

NextSkills ==
  \/ \E u \in Users, name \in SkillNames : Uncounted /\ CreateSkill(u, name)
  \/ \E u \in Users, i \in RowIds, name \in SkillNames :
       Uncounted /\ UpdateSkill(u, i, name)
  \/ \E u \in Users, i \in RowIds : Uncounted /\ DeleteSkill(u, i)
  \/ \E u \in Users, i \in RowIds : Uncounted /\ ConvertLearnedSkill(u, i)
  \/ \E u \in Users, names \in ImportLists :
       Uncounted /\ BulkImportSkills(u, names)

\* the skill requests, one after another
SpecSkills == InitSkills /\ [][NextSkills]_vars

NextLookup ==
  \/ \E u \in Users, i \in RowIds : OneMore /\ GetResume(u, i)
  \/ \E u \in Users, i \in RowIds, keys \in SUBSET {"content", "is_default"} :
       OneMore /\ UpdateResume(u, i, keys, TRUE)
  \/ \E u \in Users, i \in RowIds : OneMore /\ DeleteResume(u, i)
  \/ \E u \in Users, i \in RowIds : OneMore /\ DownloadResumePdf(u, i)
  \/ \E p \in Procs, u \in Users, i \in RowIds : SetDefaultLookup(p, u, i)
  \/ \E p \in Procs : SetDefaultClear(p)
  \/ \E p \in Procs : SetDefaultCommit(p)
  \/ \E u \in Users, i \in RowIds, name \in SkillNames :
       OneMore /\ UpdateSkill(u, i, name)
  \/ \E u \in Users, i \in RowIds : OneMore /\ DeleteSkill(u, i)
  \/ \E u \in Users, i \in RowIds : OneMore /\ ConvertLearnedSkill(u, i)
  \/ \E u \in Users, i \in RowIds : OneMore /\ GetProcessedEmail(u, i)
  \/ \E u \in Users, i \in RowIds : OneMore /\ GetDraft(u, i)
  \/ \E p \in Procs, u \in Users, e \in RowIds, i \in {0} \cup RowIds :
       DraftLookup(p, u, e, i)
  \/ \E p \in Procs : DraftTailor(p)
  \/ \E p \in Procs : DraftReply(p)
  \/ \E p \in Procs : DraftPdf(p)
  \/ \E p \in Procs : DraftGmail(p)
  \/ \E p \in Procs : DraftStore(p)

\* the requests that look a record up by its id, served concurrently
SpecLookup == InitLookup /\ [][NextLookup]_vars

\* no request of either kind is running
AllIdle == Busy = {} /\ BusyReq = {}

NextFlow ==
  \/ \E p \in Procs, u \in Users, m \in GmailIds :
       AllIdle /\ StartClassify(p, u, m)
  \/ \E p \in Procs : ClassifyFetch(p)
  \/ \E p \in Procs : ClassifyCall(p)
  \/ \E p \in Procs : ClassifyInsert(p)
  \/ \E p \in Procs, u \in Users, ids \in BatchLists :
       AllIdle /\ StartBatch(p, u, ids)
  \/ \E p \in Procs : BatchCheck(p)
  \/ \E p \in Procs : BatchFetch(p)
  \/ \E p \in Procs : BatchClassify(p)
  \/ \E p \in Procs : BatchInsert(p)
  \/ \E p \in Procs : LearnExtract(p)
  \/ \E p \in Procs : LearnMention(p)
  \/ \E p \in Procs : LearnCommit(p)
  \/ \E p \in Procs, u \in Users, e \in RowIds, i \in {0} \cup RowIds :
       AllIdle /\ DraftLookup(p, u, e, i)
  \/ \E p \in Procs : DraftTailor(p)
  \/ \E p \in Procs : DraftReply(p)
  \/ \E p \in Procs : DraftPdf(p)
  \/ \E p \in Procs : DraftGmail(p)
  \/ \E p \in Procs : DraftStore(p)

\* the tables after user 1 has classified the recruiter mail m1 and created a
\* draft for it
InitFlow ==
  /\ InitIdle
  /\ processed_emails =
       <<ProcessedEmail(1, "m1", JobDetails(RecruiterJson))>>
  /\ signals = <<JobDetails(RecruiterJson)>>
  /\ skill_learnings = <<>>
  /\ mention_log = [u \in Users |-> <<>>]
  /\ resumes = ResumeTable(<<TRUE, FALSE, TRUE>>)
  /\ users = Connected
  /\ skills = <<>>
  /\ seq = [resumes |-> 3, skills |-> 0]
  /\ email_drafts = <<StoredDraft(1, 1)>>
  /\ gmail_drafts = 1

\* classify, batch and draft requests, one after another, on tables that hold
\* a draft already
SpecFlow == InitFlow /\ [][NextFlow]_vars

\* the tables before any resume is created
InitNoResume ==
  /\ InitIdle
  /\ processed_emails = <<>>
  /\ signals = <<>>
  /\ skill_learnings = <<>>
  /\ mention_log = [u \in Users |-> <<>>]
  /\ resumes = <<>>
  /\ users = Connected
  /\ skills = <<>>
  /\ seq = [resumes |-> 0, skills |-> 0]
  /\ email_drafts = <<>>
  /\ gmail_drafts = 0

NextResumes ==
  \/ \E u \in Users : BusyReq = {} /\ Uncounted /\ CreateResume(u, "new")
  \/ \E u \in Users, i \in RowIds, keys \in {{}, {"is_default"}},
         flag \in BOOLEAN :
       BusyReq = {} /\ Uncounted /\ UpdateResume(u, i, keys, flag)
  \/ \E u \in Users, i \in RowIds :
       BusyReq = {} /\ Uncounted /\ DeleteResume(u, i)
  \/ \E p \in Procs, u \in Users, i \in RowIds :
       BusyReq = {} /\ SetDefaultLookup(p, u, i)
  \/ \E p \in Procs : SetDefaultClear(p)
  \/ \E p \in Procs : SetDefaultCommit(p)

\* the resume requests, one after another, from the empty table
SpecResumes == InitNoResume /\ [][NextResumes]_vars

\* ------------------------------------------------------- routes/auth.py
(* The handlers of routes/auth.py are coroutines without an await between  *)
(* their query and their commit: a request is one step.  accounts holds    *)
(* the sign-in columns of table users, a row's id being its index; auth    *)
(* keeps the request served last, its body and its answer.  app/auth.py    *)
(* is not part of the sources: a password hash is modelled as a value that *)
(* verifies against the password it was made from and no other, a TOTP     *)
(* code as valid for the secret it was computed from, and the current user *)
(* of a protected route as any row of the table.  secrets.token_urlsafe    *)
(* never returns a value twice: the tokens are numbered as generated.      *)

NoHash == <<>>
NoSecret == "None"
NoGoogleId == "None"
NoEmail == "None"
NoToken == 0
NoTime == -1
NoCode == <<>>
NoAccessToken == <<>>

get_password_hash(password) == <<"hash", password>>

verify_password(password, hashed) == hashed = get_password_hash(password)

\* the code an authenticator shows for the secret
TotpCode(secret) == <<"code", secret>>

verify_totp(secret, code) == secret # NoSecret /\ code = TotpCode(secret)

create_access_token(sub) == <<"jwt", sub>>

\* timedelta(hours=1), in clock units
Hour == 1

\* a row of table users as register and google_auth create it
NewUser(email, hashed, google_id, provider) ==
  [email |-> email, hashed_password |-> hashed, totp_secret |-> NoSecret,
   is_2fa_enabled |-> FALSE, google_id |-> google_id,
   auth_provider |-> provider, reset_token |-> NoToken,
   reset_token_expires |-> NoTime]

\* the rows with that email: one at most, the column being unique
ByEmail(accts, email) == {u \in DOMAIN accts : accts[u].email = email}

\* the rows holding that reset token
ByResetToken(accts, token) == {u \in DOMAIN accts : accts[u].reset_token = token}

\* the HTTPException of that code, or the 500 of an uncaught exception
AuthError(code) ==
  [code |-> code, access_token |-> NoAccessToken, requires_2fa |-> FALSE]

\* a body without a token
AuthOk == AuthError(200)

\* the Token and GoogleAuthResponse bodies
TokenBody(access_token, requires_2fa) ==
  [code |-> 200, access_token |-> access_token, requires_2fa |-> requires_2fa]

\* one more request of routes/auth.py is served: u is the row it ran for
\* (0 when it found none), answer what the caller gets
AuthServed(op, u, data, answer) ==
  /\ auth.n < MaxAuthRequests
  /\ auth' = [n |-> auth.n + 1, op |-> op, user |-> u, data |-> data,
              answer |-> answer]

authRest ==
  <<pipelineVars, last_batch, adapterVars, draftVars, crudVars>>

\* POST /api/auth/register
Register(data) ==
  /\ IF ByEmail(accounts, data.email) # {}
       THEN /\ AuthServed("register", 0, data, AuthError(400))
            /\ UNCHANGED accounts
       ELSE /\ accounts' = Append(accounts,
                 NewUser(data.email, get_password_hash(data.password),
                         NoGoogleId, "email"))
            /\ AuthServed("register", Len(accounts) + 1, data, AuthOk)
  /\ UNCHANGED <<now, issued, spent, authRest>>

\* a login that hands out the token whatever the code
LoginAnswerNoCode(accts, data) ==
  IF \/ ByEmail(accts, data.email) = {}
     \/ \E u \in ByEmail(accts, data.email) :
          ~verify_password(data.password, accts[u].hashed_password)
  THEN AuthError(401)
  ELSE LET u == CHOOSE u \in ByEmail(accts, data.email) : TRUE
       IN TokenBody(create_access_token(u), FALSE)

\* what login answers to the body data
LoginAnswer(accts, data) ==
  IF \/ ByEmail(accts, data.email) = {}
     \/ \E u \in ByEmail(accts, data.email) :
          ~verify_password(data.password, accts[u].hashed_password)
  THEN AuthError(401)
  ELSE LET u == CHOOSE u \in ByEmail(accts, data.email) : TRUE
       IN IF accts[u].is_2fa_enabled /\ data.totp_code = NoCode
          THEN TokenBody(NoAccessToken, TRUE)
          ELSE IF /\ accts[u].is_2fa_enabled
                  /\ ~verify_totp(accts[u].totp_secret, data.totp_code)
               THEN AuthError(401)
               ELSE TokenBody(create_access_token(u), FALSE)

\* POST /api/auth/login
Login(data) ==
  /\ AuthServed("login",
            IF ByEmail(accounts, data.email) = {} THEN 0
            ELSE CHOOSE u \in ByEmail(accounts, data.email) : TRUE,
            data, LoginAnswer(accounts, data))
  /\ UNCHANGED <<accounts, now, issued, spent, authRest>>

\* POST /api/auth/2fa/setup of current user u, the secret being generated
Setup2fa(u, secret) ==
  /\ u \in DOMAIN accounts
  /\ IF accounts[u].is_2fa_enabled
       THEN /\ AuthServed("2fa/setup", u, <<>>, AuthError(400))
            /\ UNCHANGED accounts
       ELSE /\ accounts' = [accounts EXCEPT ![u].totp_secret = secret]
            /\ AuthServed("2fa/setup", u, <<>>, AuthOk)
  /\ UNCHANGED <<now, issued, spent, authRest>>

\* POST /api/auth/2fa/verify of current user u
Verify2faSetup(u, data) ==
  /\ u \in DOMAIN accounts
  /\ IF \/ accounts[u].totp_secret = NoSecret
        \/ ~verify_totp(accounts[u].totp_secret, data.code)
       THEN /\ AuthServed("2fa/verify", u, data, AuthError(400))
            /\ UNCHANGED accounts
       ELSE /\ accounts' = [accounts EXCEPT ![u].is_2fa_enabled = TRUE]
            /\ AuthServed("2fa/verify", u, data, AuthOk)
  /\ UNCHANGED <<now, issued, spent, authRest>>

\* POST /api/auth/2fa/disable of current user u
Disable2fa(u, data) ==
  /\ u \in DOMAIN accounts
  /\ IF \/ ~accounts[u].is_2fa_enabled
        \/ ~verify_totp(accounts[u].totp_secret, data.code)
       THEN /\ AuthServed("2fa/disable", u, data, AuthError(400))
            /\ UNCHANGED accounts
       ELSE /\ accounts' = [accounts EXCEPT ![u].is_2fa_enabled = FALSE,
                                            ![u].totp_secret = NoSecret]
            /\ AuthServed("2fa/disable", u, data, AuthOk)
  /\ UNCHANGED <<now, issued, spent, authRest>>

\* POST /api/auth/forgot-password: the answer is the same in every case
ForgotPassword(data) ==
  /\ IF \/ ByEmail(accounts, data.email) = {}
        \/ \E u \in ByEmail(accounts, data.email) :
             /\ accounts[u].auth_provider = "google"
             /\ accounts[u].hashed_password = NoHash
       THEN /\ AuthServed("forgot-password", 0, data, AuthOk)
            /\ UNCHANGED <<accounts, issued>>
       ELSE LET u == CHOOSE u \in ByEmail(accounts, data.email) : TRUE
            IN /\ issued < MaxTokens
               /\ issued' = issued + 1
               /\ accounts' = [accounts EXCEPT
                    ![u].reset_token = issued + 1,
                    ![u].reset_token_expires = now + Hour]
               /\ AuthServed("forgot-password", u, data, AuthOk)
  /\ UNCHANGED <<now, spent, authRest>>

\* the row a successful reset leaves, the token kept
ResetRowKeepingToken(row, new_password) ==
  [row EXCEPT !.hashed_password = get_password_hash(new_password)]

\* the row a successful reset leaves
ResetRow(row, new_password) ==
  [row EXCEPT !.hashed_password = get_password_hash(new_password),
              !.reset_token = NoToken,
              !.reset_token_expires = NoTime]

\* POST /api/auth/reset-password
ResetPassword(data) ==
  /\ IF ByResetToken(accounts, data.token) = {}
       THEN /\ AuthServed("reset-password", 0, data, AuthError(400))
            /\ UNCHANGED <<accounts, spent>>
       ELSE \E u \in ByResetToken(accounts, data.token) :
              IF /\ accounts[u].reset_token_expires # NoTime
                 /\ accounts[u].reset_token_expires < now
              THEN /\ AuthServed("reset-password", u, data, AuthError(400))
                   /\ UNCHANGED <<accounts, spent>>
              ELSE /\ accounts' = [accounts EXCEPT
                        ![u] = ResetRow(@, data.new_password)]
                   /\ spent' = spent \cup {data.token}
                   /\ AuthServed("reset-password", u, data, AuthOk)
  /\ UNCHANGED <<now, issued, authRest>>

\* POST /api/auth/google: valid says whether the credential verifies, email
\* and google_id are what it carries
GoogleAuth(valid, data) ==
  /\ IF ~valid
       THEN /\ AuthServed("google", 0, data, AuthError(401))
            /\ UNCHANGED accounts
       ELSE IF data.email = NoEmail
       THEN /\ AuthServed("google", 0, data, AuthError(400))
            /\ UNCHANGED accounts
       ELSE LET found == {u \in DOMAIN accounts :
                            \/ accounts[u].google_id = data.google_id
                            \/ accounts[u].email = data.email}
            IN IF found = {}
               THEN /\ accounts' = Append(accounts,
                         NewUser(data.email, NoHash, data.google_id, "google"))
                    /\ AuthServed("google", Len(accounts) + 1, data,
                         TokenBody(create_access_token(Len(accounts) + 1), FALSE))
               ELSE \E u \in found :
                      IF accounts[u].google_id # NoGoogleId
                      THEN /\ AuthServed("google", u, data,
                                TokenBody(create_access_token(u), FALSE))
                           /\ UNCHANGED accounts
                      ELSE IF \E o \in DOMAIN accounts :
                                accounts[o].google_id = data.google_id
                      THEN /\ AuthServed("google", u, data, AuthError(500))
                           /\ UNCHANGED accounts
                      ELSE /\ accounts' = [accounts EXCEPT
                                ![u].google_id = data.google_id,
                                ![u].auth_provider = "google"]
                           /\ AuthServed("google", u, data,
                                TokenBody(create_access_token(u), FALSE))
  /\ UNCHANGED <<now, issued, spent, authRest>>

\* an hour passes
Tick ==
  /\ now < MaxClock
  /\ now' = now + 1
  /\ UNCHANGED <<accounts, issued, spent, auth, authRest>>

Emails == {"a@x", "b@x"}
Passwords == {"pw1", "pw2"}
Secrets == {"s1", "s2"}
GoogleIds == {"g1"}
Codes == {NoCode} \cup {TotpCode(s) : s \in Secrets}

NextAuth ==
  \/ \E e \in Emails, pw \in Passwords :
       Register([email |-> e, password |-> pw])
  \/ \E e \in Emails, pw \in Passwords, c \in Codes :
       Login([email |-> e, password |-> pw, totp_code |-> c])
  \/ \E u \in DOMAIN accounts, s \in Secrets : Setup2fa(u, s)
  \/ \E u \in DOMAIN accounts, c \in Codes \ {NoCode} :
       Verify2faSetup(u, [code |-> c])
  \/ \E u \in DOMAIN accounts, c \in Codes \ {NoCode} :
       Disable2fa(u, [code |-> c])
  \/ \E e \in Emails : ForgotPassword([email |-> e])
  \/ \E t \in 1..MaxTokens, pw \in Passwords :
       ResetPassword([token |-> t, new_password |-> pw])
  \/ \E valid \in BOOLEAN, e \in Emails \cup {NoEmail}, g \in GoogleIds :
       GoogleAuth(valid, [email |-> e, google_id |-> g])
  \/ Tick

\* the sign-in routes, one request after another, from an empty table
SpecAuth == Init /\ [][NextAuth]_vars

\* the tables before any mail is classified, each mailbox connected or not
InitBatch ==
  /\ processed_emails = <<>>
  /\ signals = <<>>
  /\ resumes = ResumeTable(<<TRUE, FALSE, TRUE>>)
  /\ \E c \in [Users -> BOOLEAN] : users = [u \in Users |-> User(c[u])]
  /\ InitRest

\* classify and batch requests, one after another, of users whose mailbox is
\* connected or not
SpecBatch == InitBatch /\ [][NextSeq]_vars

\* ================================================================ claims
Rows(u, m) ==
  {i \in DOMAIN processed_emails :
     processed_emails[i].user_id = u /\ processed_emails[i].gmail_id = m}

AtMostOneRowPerKey ==
  \A u \in Users, m \in GmailIds : Cardinality(Rows(u, m)) <= 1

\* C1: a classify request for a (user, gmail id) that is already processed
\* makes no call of the classification adapter, and, once the mailbox has
\* delivered the message, ends successfully with exactly one row for the key.
C1_IdempotentClassify ==
  /\ \A p \in Procs :
       inv[p].op = "classify" /\ inv[p].seen => inv[p].calls = 0
  /\ last.seen /\ last.fetches > 0 =>
       /\ last.status = "ok"
       /\ last.calls = 0
       /\ Cardinality(Rows(last.user_id, last.gmail_id)) = 1

\* C2: there is at most one row per (user, gmail id), and no commit of a
\* ProcessedEmail is attempted for a key that already has its row.
C2_NoSecondInsert ==
  /\ AtMostOneRowPerKey
  /\ ~last_attempt.own

\* C3: whatever the interleaving of the checks, reasoning calls and commits of
\* two requests, no (user, gmail id) ever has two rows, and once a commit for
\* a key has been attempted (the id not being held by another user) the key
\* has exactly one row.
C3_OneRowUnderRace ==
  /\ AtMostOneRowPerKey
  /\ last_attempt.op # "none" /\ ~last_attempt.foreign =>
       Cardinality(Rows(last_attempt.user_id, last_attempt.gmail_id)) = 1

\* two requests passed the check for one key, and the commit of the second (a
\* batch) met the row of the first
C3_Witness ==
  /\ last_attempt.op = "batch"
  /\ last_attempt.own
  /\ ~last_attempt.ok
  /\ Cardinality(Rows(last_attempt.user_id, last_attempt.gmail_id)) = 1

\* C4: the commit of a ProcessedEmail of a user who has no row for the gmail
\* id succeeds, whatever rows other users have.
C4_UsersIndependent ==
  last_attempt.op # "none" /\ ~last_attempt.own => last_attempt.ok

\* ----------------------------------------------------------- skill ledger
PyA == Mention(<<"P", "y">>, "backend", "ctxA")
pyB == Mention(<<"p", "y">>, "cloud", "ctxB")

\* the ledger rows of a user
Ledger(u) ==
  {i \in DOMAIN skill_learnings : skill_learnings[i].user_id = u}

\* the recorded mentions of a user that the ledger files under the key
Recorded(u, key) ==
  {k \in DOMAIN mention_log[u] : SkillKey(mention_log[u][k]) = key}

C6_OneRowPerNormalizedName ==
  \A i, j \in DOMAIN skill_learnings :
    /\ i # j
    /\ skill_learnings[i].user_id = skill_learnings[j].user_id
    => Normalize(skill_learnings[i].skill_name)
         # Normalize(skill_learnings[j].skill_name)

RowCounted(r) ==
  r.occurrence_count = Len(r.contexts) /\ r.occurrence_count >= 1

\* what one recorded mention does to the rows a session sees: a new row with
\* count 1 and the one context, or one row with its count raised by one and
\* the context appended, every other row as it was
MentionRecorded(old, new, skill) ==
  \/ /\ Len(new) = Len(old) + 1
     /\ SubSeq(new, 1, Len(old)) = old
     /\ new[Len(new)].occurrence_count = 1
     /\ new[Len(new)].contexts = <<skill.context>>
  \/ /\ Len(new) = Len(old)
     /\ \E i \in DOMAIN old :
          /\ new[i].occurrence_count = old[i].occurrence_count + 1
          /\ new[i].contexts = Append(old[i].contexts, skill.context)
          /\ \A j \in DOMAIN old : j # i => new[j] = old[j]

\* C7: every ledger row, stored or held by a session, has occurrence_count =
\* len(contexts) >= 1, and every pass of the loop of learn_skills_from_email
\* over an item that has a name (a mention that is recorded)
\* raises the count of one row by exactly one and appends exactly one context
\* to the end of its contexts (or adds a row with count 1 and that context),
\* leaving every other row and every earlier context of the request as it was.
C7_CountMatchesContexts ==
  /\ [](\A i \in DOMAIN skill_learnings : RowCounted(skill_learnings[i]))
  /\ [](\A p \in Procs : \A i \in DOMAIN View(session[p]) :
          RowCounted(View(session[p])[i]))
  /\ [][\A p \in Procs :
          /\ inv[p].pc = "l_mention"
          /\ HasName(Head(inv[p].skills))
          /\ inv'[p] # inv[p]
          =>
            MentionRecorded(View(session[p]), View(session[p])',
                            Head(inv[p].skills))]_vars

\* a stored row that a later mention has incremented
C7_Witness ==
  \E i \in DOMAIN skill_learnings :
    /\ skill_learnings[i].occurrence_count = 2
    /\ Len(skill_learnings[i].contexts) = 2

\* C8: when no request is running, every name recorded for a user has exactly
\* one ledger row, whose occurrence_count is the number of mentions recorded
\* under it and whose contexts hold every recorded context.
C8_NoLostIncrement ==
  Busy = {} =>
    \A u \in Users : \A k \in DOMAIN mention_log[u] :
      LET key == SkillKey(mention_log[u][k])
          rows == {i \in Ledger(u) : skill_learnings[i].skill_name = key}
      IN /\ Cardinality(rows) = 1
         /\ \A i \in rows :
              /\ skill_learnings[i].occurrence_count
                   = Cardinality(Recorded(u, key))
              /\ \A j \in Recorded(u, key) :
                   \E c \in DOMAIN skill_learnings[i].contexts :
                     skill_learnings[i].contexts[c] = mention_log[u][j].context

\* ------------------------------------------------ classification adapter
AdapterCalled == adapter_out.exc # "not called"

\* the reply carries a text whose payload (what is inside the code fence, or
\* the whole text) is no JSON value
NotJson(resp) ==
  /\ resp.api = "ok"
  /\ resp.content = "text"
  /\ ~json_loads(StripFence(resp.text)).ok

CanonicalFailure(out) ==
  /\ ~out.raised
  /\ out.value.is_recruiter_email = FALSE
  /\ out.value.confidence = 0
  /\ out.value.reason # ""

\* C9: on a reply whose text is no valid JSON, classify_email returns the
\* canonical failure (not a recruiter email, confidence 0.0, a non-empty
\* reason) and does not raise.
C9_FailOpen ==
  AdapterCalled /\ NotJson(adapter_resp) => CanonicalFailure(adapter_out)

\* a fenced reply whose payload is prose, answered with the failure value
C9_Witness ==
  /\ AdapterCalled
  /\ adapter_resp = TextReply(<<FenceJson, Prose, Fence>>)
  /\ CanonicalFailure(adapter_out)

\* the reply carries JSON that JobDetails does not accept
ShapeFailure(resp) ==
  /\ resp.api = "ok"
  /\ resp.content = "text"
  /\ json_loads(StripFence(resp.text)).ok
  /\ JobDetailsError(json_loads(StripFence(resp.text)).val) # "none"

\* C10: classify_email returns a JobDetails for every reply of the reasoning
\* engine and raises for none; on JSON of the wrong shape it returns the
\* canonical failure.
C10_NeverRaises ==
  AdapterCalled /\ adapter_resp.api = "ok" =>
    /\ ~adapter_out.raised
    /\ ShapeFailure(adapter_resp) => CanonicalFailure(adapter_out)

\* -------------------------------------------------------- tailoring adapter
TailorCalled == tailor_out.exc # "not called"

\* C11: on a reply whose text is no valid JSON, tailor_resume returns the base
\* resume it was given, unchanged, and does not raise.
C11_TailorFailSafe ==
  TailorCalled /\ NotJson(adapter_resp) =>
    tailor_out = [raised |-> FALSE, exc |-> "none", value |-> tailor_base]

\* a fenced reply whose payload is prose, answered with the base resume r2
C11_Witness ==
  /\ TailorCalled
  /\ adapter_resp = TextReply(<<Fence, Prose, Fence>>)
  /\ tailor_base = BaseResume("r2")
  /\ ~tailor_out.raised
  /\ tailor_out.value = BaseResume("r2")

\* the document is a mapping with the top-level keys of the base resume
SameShape(doc) == doc.kind = "object" /\ doc.keys = ResumeKeys

\* C12: the document tailor_resume returns to create_draft, and the document
\* stored in every EmailDraft, is a mapping with exactly the top-level keys of
\* the base resume.
C12_ShapePreserved ==
  /\ \A p \in Procs :
       req[p].pc \in {"d_reply", "d_pdf", "d_gmail", "d_store"} =>
         SameShape(req[p].tailored)
  /\ \A i \in DOMAIN email_drafts : SameShape(email_drafts[i].tailored_resume)

\* C13: every JobDetails classify_email returns, and every confidence stored
\* in a ProcessedEmail, has 0 <= confidence <= 1 (0..100 hundredths).
C13_ConfidenceInRange ==
  /\ AdapterCalled /\ ~adapter_out.raised =>
       adapter_out.value.confidence \in 0..100
  /\ \A i \in DOMAIN processed_emails :
       processed_emails[i].confidence \in 0..100

\* ---------------------------------------------------- failure containment
InLearning(r) == r.pc \in {"l_extract", "l_mention", "l_commit"}

\* C14: a classify request that has stored its ProcessedEmail and is in the
\* skill-learning branch ends by returning to its caller (status ok), with
\* the row still stored, whatever the extraction call or the ledger update do.
C14_LearningContained ==
  [][\A p \in Procs :
       /\ inv[p].op = "classify"
       /\ InLearning(inv[p])
       /\ inv'[p].pc = "idle"
       => /\ last'.status = "ok"
          /\ \E i \in DOMAIN processed_emails' :
               /\ processed_emails'[i].user_id = inv[p].user_id
               /\ processed_emails'[i].gmail_id = inv[p].gmail_id]_vars

\* C15: a batch run passes over an id at its check only when the id already
\* has its row: an id that is not processed yet is fetched, classified and
\* stored, whatever happened to the ids before it (stated for runs during
\* which no other user holds a row, so that the failure of C4 is excluded).
C15_BatchResilience ==
  [][\A p \in Procs :
       /\ inv[p].op = "batch"
       /\ inv[p].pc = "b_check"
       /\ inv'[p] # inv[p]
       /\ inv'[p].pc # "b_fetch"
       /\ \A i \in DOMAIN processed_emails :
            processed_emails[i].user_id = inv[p].user_id
       => Rows(inv[p].user_id, Head(inv[p].gmail_ids)) # {}]_vars

\* C16: for an id that has its row for the user, the step of a batch run at
\* its check goes on to the next id (or ends the run) with no fetch, no
\* classification and no skill learning, and leaves the rows of
\* processed_emails and skill_learnings as they are.
C16_SkipProcessed ==
  [][\A p \in Procs :
       /\ inv[p].op = "batch"
       /\ inv[p].pc = "b_check"
       /\ Rows(inv[p].user_id, Head(inv[p].gmail_ids)) # {}
       /\ inv'[p] # inv[p]
       => /\ inv'[p].pc \in {"b_check", "idle"}
          /\ inv'[p].gmail_ids = Tail(inv[p].gmail_ids) \/ inv'[p].pc = "idle"
          /\ inv'[p].fetches = 0 /\ inv'[p].calls = 0
          /\ UNCHANGED <<processed_emails, signals, skill_learnings, mention_log,
                         session>>]_vars

\* a batch run of two ids that passed over both
C16_Witness ==
  /\ last_batch.ack = 2
  /\ last_batch.skipped = 2
  /\ processed_emails # <<>>

\* C17: the request that submits a batch is acknowledged with the number of
\* submitted ids before any id is touched; the run then takes the ids one at
\* a time in list order, whatever the outcome of each, and ends.
C17_BatchTerminates ==
  /\ [][\A p \in Procs :
          inv[p].op # "batch" /\ inv'[p].op = "batch" =>
            /\ inv'[p].ack = Len(inv'[p].gmail_ids)
            /\ inv'[p].pc = "b_check"
            /\ UNCHANGED <<processed_emails, signals, skill_learnings>>]_vars
  /\ [][\A p \in Procs :
          inv[p].op = "batch" =>
            \/ inv'[p].gmail_ids = inv[p].gmail_ids /\ inv'[p].ack = inv[p].ack
            \/ /\ inv'[p].gmail_ids = Tail(inv[p].gmail_ids)
               /\ inv'[p].ack = inv[p].ack
               /\ inv'[p].pc = "b_check"
            \/ Len(inv[p].gmail_ids) = 1 /\ inv'[p].pc = "idle"]_vars
  /\ \A p \in Procs : (inv[p].op = "batch") ~> (inv[p].pc = "idle")

\* a batch run of two ids has ended, and neither id got a row
C17_Witness ==
  /\ last_batch.ack = 2
  /\ last_batch.skipped = 0
  /\ processed_emails = <<>>
  /\ Busy = {}

\* ----------------------------------------------------------- default resume
\* the resumes of a user that are flagged as default
Defaults(u) ==
  {i \in ResumeIds : resumes[i].user_id = u /\ resumes[i].is_default}

LastReq == req_log[Len(req_log)]

\* C18: after a set-default request for resume X has succeeded, X is the one
\* default resume of its user, and the resumes of other users are as they
\* were before the request.
C18_DefaultExclusive ==
  req_log # <<>> /\ LastReq.op = "set_default" /\ LastReq.status = "ok" =>
    /\ Defaults(LastReq.user_id) = {LastReq.resume_id}
    /\ \A i \in ResumeIds :
         resumes[i].user_id # LastReq.user_id => resumes[i] = LastReq.before[i]

\* the other resume of the user was the default before the request, and the
\* other user has a default
C18_Witness ==
  /\ req_log # <<>>
  /\ LastReq.op = "set_default"
  /\ LastReq.status = "ok"
  /\ LastReq.resume_id = 1
  /\ LastReq.before[2].is_default
  /\ Defaults(1) = {1}
  /\ Defaults(2) = {3}

\* C19: when two set-default requests of one user for different resumes have
\* both succeeded, whatever the interleaving of their steps, the user has
\* exactly one default resume.
C19_OneDefaultUnderRace ==
  /\ Len(req_log) = 2
  /\ \A k \in 1..2 : req_log[k].op = "set_default" /\ req_log[k].status = "ok"
  /\ req_log[1].user_id = req_log[2].user_id
  /\ req_log[1].resume_id # req_log[2].resume_id
  => Cardinality(Defaults(req_log[1].user_id)) = 1

\* ------------------------------------------------------------ draft records
DraftsCreated ==
  {k \in DOMAIN req_log :
     req_log[k].op = "create_draft" /\ req_log[k].status = "ok"}

\* C20: a create_draft request that ends with an error (the tailoring call,
\* the reply call, the rendering or the mailbox call raised) leaves
\* email_drafts as it was; a row is added only by a request for which all of
\* these steps have succeeded, so that there are as many rows as requests
\* that succeeded.
C20_NoPartialDraft ==
  /\ [](Len(email_drafts) = Cardinality(DraftsCreated))
  /\ [][\A p \in Procs :
          /\ req[p].op = "create_draft"
          /\ req[p].pc # "d_store"
          /\ req'[p].pc = "idle"
          => /\ email_drafts' = email_drafts
             /\ req_log'[Len(req_log')].status = "error"]_vars
  /\ [][email_drafts' # email_drafts =>
          \E p \in Procs :
            /\ req[p].pc = "d_store"
            /\ req[p].tailored # NoDoc
            /\ req[p].reply_text # ""
            /\ req[p].pdf
            /\ req[p].gmail_draft_id # 0
            /\ email_drafts' = Append(email_drafts, EmailDraft(req[p]))]_vars

\* the mailbox call of a draft request raised, and no row was stored
C20_Witness ==
  /\ email_drafts = <<>>
  /\ \E k \in DOMAIN req_log :
       /\ req_log[k].op = "create_draft"
       /\ req_log[k].status = "error"
       /\ req_log[k].step = "gmail"

\* ------------------------------------------------- preconditions of a draft
\* the request names a processed email of its user
EmailFound(e) ==
  /\ e.processed_email_id \in DOMAIN processed_emails
  /\ processed_emails[e.processed_email_id].user_id = e.user_id

\* the resume the request asks for is missing: the id it names is no resume
\* of the user, or it names none and the user has no default
ResumeMissing(e) ==
  IF e.given # 0
    THEN ~(e.given \in DOMAIN resumes /\ resumes[e.given].user_id = e.user_id)
    ELSE \A i \in DOMAIN resumes :
           ~(resumes[i].user_id = e.user_id /\ resumes[i].is_default)

Foreign(rows, u, i) == i \in DOMAIN rows /\ rows[i].user_id # u

\* the table a request of the resume and skill routes looks its id up in
TableOf(op) ==
  CASE op \in {"get_resume", "update_resume", "delete_resume",
               "download_resume_pdf"} -> resumes
    [] op \in {"update_skill", "delete_skill"} -> skills
    [] op = "convert_learned_skill" -> skill_learnings
    [] op = "get_processed_email" -> processed_emails
    [] op = "get_draft" -> email_drafts
    [] OTHER -> <<>>

tables ==
  <<processed_emails, skill_learnings, resumes, skills, email_drafts,
    gmail_drafts, users>>

\* C22: a request that names, by id, a record of another user is answered
\* with a not-found error (404) that carries nothing of the record, and
\* leaves every table as it is: get, update, delete, set-default and download
\* of a resume, update and delete of a skill, convert of a learned skill, get
\* of a processed email and of a draft, and both ids of create_draft.
C22_OwnershipChecked ==
  /\ [][crud' # crud /\ Foreign(TableOf(crud'.op), crud'.user_id, crud'.id) =>
          /\ crud'.code = 404
          /\ crud'.data = {}
          /\ UNCHANGED tables]_vars
  /\ [][req_log' # req_log =>
          LET e == req_log'[Len(req_log')]
          IN /\ e.op = "set_default" /\ Foreign(resumes, e.user_id, e.given) =>
                  e.code = 404 /\ UNCHANGED tables
             /\ /\ e.op = "create_draft"
                /\ Foreign(processed_emails, e.user_id, e.processed_email_id)
                => e.code = 404 /\ UNCHANGED tables
             /\ e.op = "create_draft" /\ Foreign(resumes, e.user_id, e.given) =>
                  e.code = 404 /\ UNCHANGED tables]_vars
  /\ [](\A p \in Procs :
          req[p].pc # "idle" =>
            /\ ~Foreign(resumes, req[p].user_id, req[p].given)
            /\ req[p].op = "create_draft" =>
                 ~Foreign(processed_emails, req[p].user_id,
                          req[p].processed_email_id))

\* ------------------------------------------------------------- skill names
\* the skills of a user stored under the lower-cased name
SkillRows(u, name) ==
  {j \in DOMAIN skills : skills[j].user_id = u /\ Lower(skills[j].name) = name}

\* C23: create_skill for a name whose lower-cased form the user already has
\* is answered with an error and leaves the skills as they are, and after any
\* sequence of create, update, delete, bulk-import and convert requests no
\* user has two skills with the same lower-cased name.
C23_SkillNamesUnique ==
  /\ [](\A u \in Users, name \in SkillNames :
          Cardinality(SkillRows(u, Lower(name))) <= 1)
  /\ [][crud' # crud /\ crud'.op = "create_skill" /\ crud'.code = 200 =>
          \A row \in crud'.data : SkillRows(crud'.user_id, row.name) = {}]_vars
  /\ [][crud' # crud /\ crud'.op = "create_skill" /\ crud'.code # 200 =>
          /\ crud'.detail = "Skill already exists"
          /\ skills' = skills]_vars

\* ------------------------------------------------------- the stored drafts
\* C24: every EmailDraft row has the status "draft"; a create_draft request
\* that succeeds adds exactly one row, the one it built, and a request that
\* does not succeed adds none; no step of a classify request, of a batch run
\* or of the skill learning, and no step of create_draft, changes or removes
\* a row that is stored, so a row is added by nothing but the last step of a
\* create_draft request.
C24_DraftCreatedOnce ==
  /\ [](\A k \in DOMAIN email_drafts : email_drafts[k].status = "draft")
  /\ [][\A k \in DOMAIN email_drafts :
          k \in DOMAIN email_drafts' /\ email_drafts'[k] = email_drafts[k]]_vars
  /\ [][req_log' # req_log /\ LastReq'.op = "create_draft" =>
          IF LastReq'.status = "ok"
            THEN /\ Len(email_drafts') = Len(email_drafts) + 1
                 /\ LET d == email_drafts'[Len(email_drafts')]
                    IN /\ d.user_id = LastReq'.user_id
                       /\ d.processed_email_id = LastReq'.processed_email_id
                       /\ d.status = "draft"
            ELSE email_drafts' = email_drafts]_vars
  /\ [][email_drafts' # email_drafts =>
          /\ inv' = inv
          /\ Busy = {}
          /\ req_log' # req_log
          /\ LastReq'.op = "create_draft"
          /\ LastReq'.status = "ok"]_vars

\* a batch run has stored a processed email and learned from it, a draft has
\* been created after that, and the draft stored before is as it was
C24_Witness ==
  /\ last_batch # NoBatch
  /\ Len(processed_emails) = 2
  /\ Len(email_drafts) = 2
  /\ email_drafts[1] = StoredDraft(1, 1)
  /\ req_log # <<>>
  /\ LastReq.op = "create_draft"
  /\ LastReq.status = "ok"

\* --------------------------------------------- the job details of a draft
\* the fields of JobDetails that create_draft reads back from the columns
SameStoredFields(a, b) ==
  /\ a.job_title = b.job_title
  /\ a.company = b.company
  /\ a.key_requirements = b.key_requirements
  /\ a.key_technologies = b.key_technologies
  /\ a.is_recruiter_email = b.is_recruiter_email
  /\ a.confidence = b.confidence

\* C25: the JobDetails a create_draft request hands to tailor_resume and to
\* generate_reply_email equals the JobDetails that classify_email returned
\* for that email in job_title, company, key_requirements, key_technologies,
\* job_type, seniority_level, salary_range, recruiter_name,
\* is_recruiter_email and confidence, and when that JobDetails held a
\* recruiter name the greeting of the reply prompt is "Hi <name>,".
C25_StoredSignalPassed ==
  \A p \in Procs :
    req[p].op = "create_draft" /\ req[p].pc # "idle" =>
      LET passed == req[p].job_details
          classified == signals[req[p].processed_email_id]
      IN /\ SameStoredFields(passed, classified)
         /\ passed.job_type = classified.job_type
         /\ passed.seniority_level = classified.seniority_level
         /\ passed.salary_range = classified.salary_range
         /\ passed.recruiter_name = classified.recruiter_name
         /\ req[p].pc \in {"d_pdf", "d_gmail", "d_store"}
              /\ classified.recruiter_name # "None"
            => req[p].greeting = <<"Hi ", classified.recruiter_name, ",">>

\* ------------------------------------------ a failing reasoning-engine call
ExtractCalled == extract_out.exc # "not called"

\* C26: when client.messages.create fails (an error or a timeout), the
\* adapter called does not raise: classify_email returns the canonical
\* failure JobDetails, extract_skills_from_email the empty list and
\* tailor_resume the base resume it was given.
C26_CallFailureFailsOpen ==
  adapter_resp = ApiError =>
    /\ AdapterCalled => CanonicalFailure(adapter_out)
    /\ ExtractCalled =>
         extract_out = [raised |-> FALSE, exc |-> "none",
                        value |-> JsonArray(<<>>)]
    /\ TailorCalled =>
         tailor_out = [raised |-> FALSE, exc |-> "none", value |-> tailor_base]

\* ------------------------------------------------- the gate of the learning
\* the step of p stores the ProcessedEmail of a message classified as no
\* recruiter email
StoresNotRecruiter(p) ==
  /\ inv[p].pc \in {"c_insert", "b_insert"}
  /\ ~inv[p].job_details.is_recruiter_email
  /\ Len(processed_emails') = Len(processed_emails) + 1

\* C27: a request is in learn_skills_from_email only for a message whose
\* JobDetails has is_recruiter_email true; when classify_email or the batch
\* task stores the ProcessedEmail of a message whose JobDetails has it false
\* (the failure value of the adapter included), the row is stored, no
\* extraction call follows for the message, and the ledger is as it was
\* before the message.
C27_LearningGated ==
  /\ [](\A p \in Procs :
          InLearning(inv[p]) => inv[p].job_details.is_recruiter_email)
  /\ [][\A p \in Procs :
          StoresNotRecruiter(p) =>
            /\ ~InLearning(inv'[p])
            /\ processed_emails'[Len(processed_emails')] =
                 ProcessedEmail(inv[p].user_id, inv[p].gmail_id,
                                inv[p].job_details)
            /\ skill_learnings' = skill_learnings
            /\ mention_log' = mention_log]_vars

\* ------------------------------------------------ the category of a row
\* the last of the recorded mentions of u filed under the key
LastRecorded(u, key) ==
  mention_log[u][CHOOSE k \in Recorded(u, key) :
                   \A j \in Recorded(u, key) : j <= k]

\* C28: when no request is running, the category of every ledger row is the
\* category of the latest mention recorded under its name.
C28_CategoryLastSeen ==
  \A u \in Users : \A i \in Ledger(u) :
    Busy = {} /\ Recorded(u, skill_learnings[i].skill_name) # {} =>
      skill_learnings[i].category =
        LastRecorded(u, skill_learnings[i].skill_name).category

\* ------------------------------------------------ the steps of create_draft
\* the steps of create_draft in the order of the code
DraftSteps == <<"d_tailor", "d_reply", "d_pdf", "d_gmail", "d_store">>

StepOf(pc) == CHOOSE k \in DOMAIN DraftSteps : DraftSteps[k] = pc

\* what the steps have returned when the request is at step k: the results of
\* the steps before k and of no other
ReturnedBefore(r, k) ==
  /\ (r.tailored # NoDoc) <=> k > 1
  /\ (r.reply_text # "") <=> k > 2
  /\ r.pdf <=> k > 3
  /\ (r.gmail_draft_id # 0) <=> k > 4

\* C29: a create_draft request is past its lookups only for a processed
\* email of its user; its steps are taken in the order tailor_resume,
\* generate_reply_email, generate_resume_pdf, gmail.create_draft, db.add of
\* the EmailDraft: at every step the steps before it have returned their
\* results and no later step has, a request moves from a step to the next
\* one only, or ends with an error, and the EmailDraft is stored by the
\* last step alone.
C29_StepOrder ==
  /\ [](\A p \in Procs :
          req[p].op = "create_draft" /\ req[p].pc # "idle" =>
            /\ Owned(processed_emails, req[p].user_id,
                     req[p].processed_email_id)
            /\ req[p].pc \in {DraftSteps[k] : k \in DOMAIN DraftSteps}
            /\ ReturnedBefore(req[p], StepOf(req[p].pc)))
  /\ [][\A p \in Procs :
          req[p].op = "create_draft" /\ req'[p] # req[p] =>
            \/ /\ req'[p].pc = "idle"
               /\ \/ req[p].pc = "d_store" /\ LastReq'.status = "ok"
                  \/ LastReq'.status = "error" /\ email_drafts' = email_drafts
            \/ /\ req'[p].pc # "idle"
               /\ StepOf(req'[p].pc) = StepOf(req[p].pc) + 1
               /\ email_drafts' = email_drafts]_vars

\* a request at its last step: a tailored resume, a reply text, a PDF and a
\* mailbox draft are there, and the EmailDraft is not stored yet
C29_Witness ==
  \E p \in Procs :
    /\ req[p].pc = "d_store"
    /\ ReturnedBefore(req[p], 5)
    /\ email_drafts = <<>>

\* ------------------------------------------------ the default resume flag
\* the resumes of a user
ResumesOf(rows, u) == {j \in DOMAIN rows : rows[j].user_id = u}

\* C30: with create, update, delete and set-default requests served one
\* after another from the empty table, no user has two resumes with
\* is_default true; an update_resume request leaves is_default of every
\* resume as it was, whatever its body holds; and create_resume stores the
\* new resume with is_default true exactly when its user had no resume.
C30_DefaultFlagKept ==
  /\ [](\A u \in Users : Cardinality(DefaultsOf(resumes, u)) <= 1)
  /\ [][crud' # crud /\ crud'.op = "update_resume" =>
          /\ DOMAIN resumes' = DOMAIN resumes
          /\ \A i \in DOMAIN resumes :
               resumes'[i].is_default = resumes[i].is_default]_vars
  /\ [][crud' # crud /\ crud'.op = "create_resume" =>
          /\ DOMAIN resumes' = DOMAIN resumes \cup {crud'.id}
          /\ crud'.id \notin DOMAIN resumes
          /\ resumes'[crud'.id].is_default
               <=> ResumesOf(resumes, crud'.user_id) = {}
          /\ \A i \in DOMAIN resumes : resumes'[i] = resumes[i]]_vars

\* user 1 has made its second resume the default, and an update of that
\* resume has then been served
C30_Witness ==
  /\ BusyReq = {}
  /\ ResumesOf(resumes, 1) = {1, 2}
  /\ DefaultsOf(resumes, 1) = {2}
  /\ req_log # <<>>
  /\ LastReq.op = "set_default"
  /\ LastReq.status = "ok"
  /\ crud.op = "update_resume"
  /\ crud.code = 200
  /\ crud.id = 2
  /\ crud.data = {resumes[2]}

\* ----------------------------------------------- a default for every user
\* C31: with create, update, delete and set-default requests served one
\* after another from the empty table, every user who has a resume has one
\* with is_default true (so that create_draft without a resume id finds a
\* resume whenever the user has one).
C31_DefaultExists ==
  \A u \in Users :
    BusyReq = {} /\ ResumesOf(resumes, u) # {} => DefaultsOf(resumes, u) # {}

\* --------------------------------------- mailbox drafts and their records
\* the EmailDraft rows that carry the id of the mailbox draft g
RecordsOf(g) == {k \in DOMAIN email_drafts : email_drafts[k].gmail_draft_id = g}

\* C32: every EmailDraft row carries the id of a mailbox draft that
\* gmail.create_draft has returned, the id of a processed email of its user
\* and the subject "Re: " followed by the subject of that email; no two rows
\* carry the same mailbox draft; and every mailbox draft created has its
\* row once the request that created it is over, however that request ended.
C32_DraftsCorrespond ==
  /\ \A k \in DOMAIN email_drafts :
       LET d == email_drafts[k]
       IN /\ d.gmail_draft_id \in 1..gmail_drafts
          /\ Owned(processed_emails, d.user_id, d.processed_email_id)
          /\ d.subject =
               <<"Re: ">> \o processed_emails[d.processed_email_id].subject
  /\ \A g \in 1..gmail_drafts :
       /\ Cardinality(RecordsOf(g)) <= 1
       /\ RecordsOf(g) = {} =>
            \E p \in Procs : req[p].pc = "d_store" /\ req[p].gmail_draft_id = g

\* ------------------------------------------------- whom a batch run serves
\* the rows of a table that belong to user u
Of(rows, u) == {i \in DOMAIN rows : rows[i].user_id = u}

\* the rows of the table are as they were, and every row added is one of u
OnlyAdds(old, new, u) ==
  /\ Len(new) >= Len(old)
  /\ \A i \in DOMAIN new : i \in DOMAIN old \/ new[i].user_id = u

\* user u has no row, or a mailbox that is not connected
Unserved(u) == u \notin DOMAIN users \/ ~users[u].gmail_connected

\* C33: for a user whose mailbox is not connected (or who has no row) a
\* batch task is never in its loop: no fetch, no reasoning call, and no
\* ProcessedEmail and no ledger row of that user is written; and a step of
\* a batch task of user u adds rows of u alone and leaves every row of
\* another user, of processed_emails and of skill_learnings, as it was.
C33_BatchServesItsUser ==
  /\ [](\A p \in Procs :
          inv[p].op = "batch" => ~Unserved(inv[p].user_id))
  /\ [][\A u \in Users :
          Unserved(u) =>
            /\ Of(processed_emails', u) = Of(processed_emails, u)
            /\ Of(skill_learnings', u) = Of(skill_learnings, u)]_vars
  /\ [][\A p \in Procs :
          inv[p].op = "batch" /\ inv'[p] # inv[p] =>
            /\ OnlyAdds(processed_emails, processed_emails', inv[p].user_id)
            /\ OnlyAdds(skill_learnings, skill_learnings', inv[p].user_id)
            /\ \A i \in DOMAIN processed_emails :
                 processed_emails[i].user_id # inv[p].user_id =>
                   processed_emails'[i] = processed_emails[i]
            /\ \A i \in DOMAIN skill_learnings :
                 skill_learnings[i].user_id # inv[p].user_id =>
                   skill_learnings'[i] = skill_learnings[i]]_vars

\* the batch of user 2, whose mailbox is not connected, was acknowledged and
\* did nothing, after a batch of user 1 had stored a row and learned from it
C33_Witness ==
  /\ ~users[2].gmail_connected
  /\ last_batch = [user_id |-> 2, ack |-> 2, skipped |-> 0]
  /\ Busy = {}
  /\ started = 2
  /\ Of(processed_emails, 1) # {}
  /\ Of(skill_learnings, 1) # {}
  /\ Of(processed_emails, 2) = {}

\* ------------------------------------------------ two-factor sign-in
\* a request of routes/auth.py is answered in the step
Answered(op) == auth'.n = auth.n + 1 /\ auth'.op = op

\* C34: a row with is_2fa_enabled set holds a TOTP secret; the flag is set
\* only by a 2fa/verify request of that user whose code is the one of the
\* secret a 2fa/setup request stored before, the secret staying; a secret
\* is stored only by a 2fa/setup request; and a login that returns a
\* non-empty access token for a user with the flag set carried the password
\* of the row and the code of its secret.
C34_TwoFactorGate ==
  /\ [](\A u \in DOMAIN accounts :
          accounts[u].is_2fa_enabled => accounts[u].totp_secret \in Secrets)
  /\ [][\A u \in DOMAIN accounts' :
          /\ accounts'[u].is_2fa_enabled
          /\ ~(u \in DOMAIN accounts /\ accounts[u].is_2fa_enabled)
          => /\ Answered("2fa/verify")
             /\ auth'.user = u
             /\ u \in DOMAIN accounts
             /\ accounts[u].totp_secret \in Secrets
             /\ accounts'[u].totp_secret = accounts[u].totp_secret
             /\ auth'.data.code = TotpCode(accounts[u].totp_secret)]_vars
  /\ [][\A u \in DOMAIN accounts' :
          /\ accounts'[u].totp_secret # NoSecret
          /\ ~(u \in DOMAIN accounts
                /\ accounts[u].totp_secret = accounts'[u].totp_secret)
          => Answered("2fa/setup") /\ auth'.user = u]_vars
  /\ [][Answered("login") /\ auth'.answer.access_token # NoAccessToken
          => \A u \in ByEmail(accounts, auth'.data.email) :
               accounts[u].is_2fa_enabled
               => /\ accounts[u].hashed_password =
                       get_password_hash(auth'.data.password)
                  /\ auth'.data.totp_code = TotpCode(accounts[u].totp_secret)
                  /\ auth'.answer.access_token = create_access_token(u)]_vars

\* a user whose second factor is enabled has signed in with the password
\* and the code of the secret
C34_Witness ==
  /\ auth.op = "login"
  /\ auth.user \in DOMAIN accounts
  /\ accounts[auth.user].is_2fa_enabled
  /\ auth.answer.access_token = create_access_token(auth.user)
  /\ auth.data.totp_code = TotpCode(accounts[auth.user].totp_secret)

\* ------------------------------------------------- password reset tokens
\* the password of some row changes in the step
PasswordChanged ==
  \E u \in DOMAIN accounts :
    accounts'[u].hashed_password # accounts[u].hashed_password

\* C35: a reset-password request with a token an earlier reset succeeded
\* with is rejected and changes no row; one with a token whose expiry has
\* passed is rejected and changes no row; a forgot-password request that
\* issues a token issues one never issued before and leaves the user's
\* previous token on no row, a token that is on no row never comes back,
\* and a password is changed only by a reset-password request carrying the
\* token the row holds.
C35_ResetTokenSingleUse ==
  /\ [][Answered("reset-password") /\ auth'.data.token \in spent
          => auth'.answer.code = 400 /\ accounts' = accounts]_vars
  /\ [][(/\ Answered("reset-password")
          /\ \E u \in ByResetToken(accounts, auth'.data.token) :
               /\ accounts[u].reset_token_expires # NoTime
               /\ accounts[u].reset_token_expires < now)
          => auth'.answer.code = 400 /\ accounts' = accounts]_vars
  /\ [][Answered("forgot-password") /\ auth'.user # 0
          => /\ accounts'[auth'.user].reset_token \notin 0..issued
             /\ (accounts[auth'.user].reset_token # NoToken
                  => ByResetToken(accounts', accounts[auth'.user].reset_token) = {})]_vars
  /\ [][\A t \in 1..issued :
          ByResetToken(accounts, t) = {} => ByResetToken(accounts', t) = {}]_vars
  /\ [][PasswordChanged
          => /\ Answered("reset-password")
             /\ auth'.answer.code = 200
             /\ \A u \in DOMAIN accounts :
                  accounts'[u].hashed_password # accounts[u].hashed_password
                  => /\ accounts[u].reset_token = auth'.data.token
                     /\ accounts[u].reset_token_expires >= now]_vars

\* the second of two tokens issued to a user was used, and was refused
\* when it was used again
C35_Witness ==
  /\ auth.op = "reset-password"
  /\ auth.answer.code = 400
  /\ auth.data.token \in spent
  /\ auth.data.token = 2
  /\ Len(accounts) = 1

====
